---- MODULE Spec2Model ----
(***************************************************************************)
(* A model of mcutil's region file engine: RegionFile (regionfile.rs) over *)
(* the sector descriptor, header tables and frame layout of region.rs.     *)
(*                                                                         *)
(* Byte quantities (usize / u64 / u32 lengths and sizes) are kept as a     *)
(* pair [sec, off] standing for sec * 4096 + off with off in 0..4095, so   *)
(* that lengths of 4 GiB and more, where the u32 casts of write_data wrap, *)
(* stay inside the integers the model checker can hold.                    *)
(***************************************************************************)
EXTENDS Integers, Sequences, FiniteSets, TLC

\* ------------------------------------------------------------------------
\* Bounds of the model
\* ------------------------------------------------------------------------

\* Slots 0 .. NumCoords-1 of the 1024 are operated on; the others stay empty.
NumCoords == 2

\* Number of RegionFile calls in one behaviour.
MaxOps == 3

\* Number of calls in one behaviour when I/O steps may fail.
MaxIoOps == 2

\* Number of calls in one behaviour in which an I/O step fails.
MaxIoFailures == 1

\* Payloads 1 .. NumPayloads are handed to the writers.
NumPayloads == 2
\* The number of calls on the file at a path.
MaxBulkOps == 2

\* ------------------------------------------------------------------------
\* Program constants
\* ------------------------------------------------------------------------

\* 4 KiB, the allocation unit (size & 4095, size >> 12).
SectorSize == 4096

\* Largest sector count a sector entry can hold (required_sectors > 255).
MaxSectorCount == 255

\* 2^32 / 4096: the number of whole sectors a u32 byte count can hold.
U32Sectors == 1048576

\* 2^24: the sector offset of a RegionSector has 24 bits.
OffsetLimit == 16777216

\* The scheme bytes of CompressionScheme.
GZip == 1
ZLib == 2
Uncompressed == 3

\* The first sector after the two header tables.
HeaderSectors == 2

\* RegionTable<T>(Box<[T; 1024]>): the number of entries of a header table.
TableLen == 1024

Coords == 0 .. (NumCoords - 1)

\* Compression levels handed to write_data (flate2::Compression, 0..9).
Levels == {0, 9}

\* Timestamps handed to write_timestamped; zero is allowed.
Timestamps == {77}

\* ------------------------------------------------------------------------
\* Byte counts
\* ------------------------------------------------------------------------

\* sec * 4096 + off bytes.
B(sec, off) == [sec |-> sec, off |-> off]

\* b + k for a small k (b + k >= 0).
BAdd(b, k) ==
    LET t == b.off + k
    IN  [sec |-> b.sec + (t \div SectorSize), off |-> t % SectorSize]

\* a <= b
BLe(a, b) == a.sec < b.sec \/ (a.sec = b.sec /\ a.off <= b.off)

BMax(a, b) == IF BLe(a, b) THEN b ELSE a

Min(a, b) == IF a <= b THEN a ELSE b

Max(a, b) == IF a >= b THEN a ELSE b

\* `as u32` of a byte count: the value modulo 2^32.
AsU32(b) == [sec |-> b.sec % U32Sectors, off |-> b.off]

\* A required_sectors that counts whole sectors only.
required_sectors_Floor(size) == size.sec

\* Counts the 4 KiB sectors needed for `size` bytes (a u32):
\* (size >> 12) + ((size & 4095) != 0).
required_sectors(size) == size.sec + (IF size.off # 0 THEN 1 ELSE 0)

\* A pad_size that adds nothing.
pad_size_none(size) == 0

\* The bytes to add to `size` to reach a multiple of 4096:
\* (4096 - (size & 4095)) & 4095.
pad_size(size) == (SectorSize - size.off) % SectorSize

\* ------------------------------------------------------------------------
\* RegionSector: |offset:3|size:1| packed in a u32
\* ------------------------------------------------------------------------

\* offset.overflowing_shl(8).0 | size
RegionSector_new(offset, size) == (offset % OffsetLimit) * 256 + size

RegionSector_empty == 0

sector_offset(s) == s \div 256

sector_count(s) == s % 256

sector_end_offset(s) == sector_offset(s) + sector_count(s)

is_empty(s) == s = 0

\* The & operator: do two sectors intersect?
bitand(a, b) ==
    ~(sector_end_offset(a) <= sector_offset(b) \/ sector_end_offset(b) <= sector_offset(a))

\* ------------------------------------------------------------------------
\* SectorManager: the free-space allocator over the 4 KiB sector space.
\* Its state is the free extents below `end` (sorted by start, no two
\* adjacent) and `end`, the start of the open-ended free extent that covers
\* everything past the last used sector.
\* ------------------------------------------------------------------------

Extent_(start, len) == [start |-> start, len |-> len]

RECURSIVE Coalesce(_, _)
\* The sorted extents `rest` appended to `acc`, with adjacent ones merged.
Coalesce(acc, rest) ==
    IF rest = <<>> THEN acc
    ELSE IF acc # <<>> /\ acc[Len(acc)].start + acc[Len(acc)].len >= rest[1].start
      THEN Coalesce([acc EXCEPT ![Len(acc)].len =
                        Max(@, rest[1].start + rest[1].len - acc[Len(acc)].start)],
                    Tail(rest))
    ELSE Coalesce(Append(acc, rest[1]), Tail(rest))

\* A manager with the sorted free extents `exts` below `end`; a free extent
\* that reaches `end` is merged into the open-ended extent.
ManagerOf(exts, end) ==
    LET merged == Coalesce(<<>>, exts)
        n == Len(merged)
    IN  IF n > 0 /\ merged[n].start + merged[n].len >= end
          THEN [unused |-> SubSeq(merged, 1, n - 1), end |-> merged[n].start]
          ELSE [unused |-> merged, end |-> end]

\* The sorted sequence `exts` with the extent `e` put at its place.
InsertExtent(exts, e) ==
    SelectSeq(exts, LAMBDA x : x.start < e.start)
    \o << e >>
    \o SelectSeq(exts, LAMBDA x : x.start >= e.start)

\* SectorManager::new(): only the header sectors 0 and 1 are used.
SectorManager_new == [unused |-> <<>>, end |-> HeaderSectors]

RECURSIVE SortByStart(_)
\* A set of extents as a sequence sorted by start.
SortByStart(S) ==
    IF S = {} THEN <<>>
    ELSE LET lo == CHOOSE e \in S : \A f \in S : e.start <= f.start
         IN  << lo >> \o SortByStart(S \ {lo})

RECURSIVE Gaps(_, _, _)
\* The gaps between the sorted used extents `used`, from sector `from` on.
Gaps(used, from, acc) ==
    IF used = <<>> THEN [unused |-> acc, end |-> from]
    ELSE LET u == used[1]
         IN  Gaps(Tail(used), Max(from, u.start + u.len),
                  IF u.start > from THEN Append(acc, Extent_(from, u.start - from)) ELSE acc)

\* SectorManager::from(sectors): sectors 0-1 and every non-empty entry are
\* used, every gap between them is free, and the open-ended extent starts
\* after the last used sector.
SectorManager_from(sectors) ==
    Gaps(SortByStart({ Extent_(sector_offset(sectors[c]), sector_count(sectors[c])) :
                         c \in { d \in DOMAIN sectors : ~is_empty(sectors[d]) } }),
         HeaderSectors, <<>>)

\* allocate(n): first fit by lowest start; the remainder of the chosen
\* extent stays free. Fails only if n = 0 or n > 255.
allocate(sm, n) ==
    IF n = 0 \/ n > MaxSectorCount THEN [ok |-> FALSE, sm |-> sm, sector |-> RegionSector_empty]
    ELSE LET fits == { i \in DOMAIN sm.unused : sm.unused[i].len >= n }
         IN  IF fits = {}
             THEN [ok |-> TRUE,
                   sm |-> [sm EXCEPT !.end = sm.end + n],
                   sector |-> RegionSector_new(sm.end, n)]
             ELSE LET i == CHOOSE k \in fits : \A j \in fits : k <= j
                      e == sm.unused[i]
                  IN  [ok |-> TRUE,
                       sm |-> [sm EXCEPT !.unused =
                                 SubSeq(@, 1, i - 1)
                                 \o (IF e.len = n THEN <<>>
                                     ELSE << Extent_(e.start + n, e.len - n) >>)
                                 \o SubSeq(@, i + 1, Len(@))],
                       sector |-> RegionSector_new(e.start, n)]

\* free(s): the extent goes back to the free set and is merged with its
\* neighbours; nothing happens for an empty sector.
free(sm, s) ==
    IF is_empty(s) THEN sm
    ELSE ManagerOf(InsertExtent(sm.unused, Extent_(sector_offset(s), sector_count(s))), sm.end)

\* A reallocate that does not free the tail of a sector it shortens.
reallocate_KeepsTail(sm, old, n) ==
    LET oc == sector_count(old)
        oo == sector_offset(old)
        oe == sector_end_offset(old)
        next == { i \in DOMAIN sm.unused :
                    sm.unused[i].start = oe /\ sm.unused[i].len >= n - oc }
    IN  IF n = 0 \/ n > MaxSectorCount
          THEN [ok |-> FALSE, sm |-> sm, sector |-> RegionSector_empty]
        ELSE IF is_empty(old) THEN allocate(sm, n)
        ELSE IF n = oc THEN [ok |-> TRUE, sm |-> sm, sector |-> old]
        ELSE IF n < oc
          THEN [ok |-> TRUE, sm |-> sm, sector |-> RegionSector_new(oo, n)]
        ELSE IF sm.end = oe
          THEN [ok |-> TRUE,
                sm |-> [sm EXCEPT !.end = oo + n],
                sector |-> RegionSector_new(oo, n)]
        ELSE IF next # {}
          THEN LET i == CHOOSE k \in next : TRUE
                   e == sm.unused[i]
               IN  [ok |-> TRUE,
                    sm |-> [sm EXCEPT !.unused =
                              SubSeq(@, 1, i - 1)
                              \o (IF e.len = n - oc THEN <<>>
                                  ELSE << Extent_(e.start + (n - oc), e.len - (n - oc)) >>)
                              \o SubSeq(@, i + 1, Len(@))],
                    sector |-> RegionSector_new(oo, n)]
        ELSE allocate(free(sm, old), n)

\* reallocate(old, n): the same sector if n sectors are what it has, its
\* head if it has more (the tail is freed), the sector extended into the
\* free extent that follows it if that is large enough, and otherwise the
\* old sector is freed and a new one allocated.
reallocate(sm, old, n) ==
    LET oc == sector_count(old)
        oo == sector_offset(old)
        oe == sector_end_offset(old)
        next == { i \in DOMAIN sm.unused :
                    sm.unused[i].start = oe /\ sm.unused[i].len >= n - oc }
    IN  IF n = 0 \/ n > MaxSectorCount
          THEN [ok |-> FALSE, sm |-> sm, sector |-> RegionSector_empty]
        ELSE IF is_empty(old) THEN allocate(sm, n)
        ELSE IF n = oc THEN [ok |-> TRUE, sm |-> sm, sector |-> old]
        ELSE IF n < oc
          THEN [ok |-> TRUE,
                sm |-> free(sm, RegionSector_new(oo + n, oc - n)),
                sector |-> RegionSector_new(oo, n)]
        ELSE IF sm.end = oe
          THEN [ok |-> TRUE,
                sm |-> [sm EXCEPT !.end = oo + n],
                sector |-> RegionSector_new(oo, n)]
        ELSE IF next # {}
          THEN LET i == CHOOSE k \in next : TRUE
                   e == sm.unused[i]
               IN  [ok |-> TRUE,
                    sm |-> [sm EXCEPT !.unused =
                              SubSeq(@, 1, i - 1)
                              \o (IF e.len = n - oc THEN <<>>
                                  ELSE << Extent_(e.start + (n - oc), e.len - (n - oc)) >>)
                              \o SubSeq(@, i + 1, Len(@))],
                    sector |-> RegionSector_new(oo, n)]
        ELSE allocate(free(sm, old), n)

\* reallocate_err(old, n): reallocate, or RegionAllocationFailure.
reallocate_err(sm, old, n) == reallocate(sm, old, n)

\* ------------------------------------------------------------------------
\* Payloads and the encoder
\* ------------------------------------------------------------------------

Payloads == 1 .. NumPayloads

\* The number of bytes ZlibEncoder::new(buf, compression) leaves in the
\* buffer for a payload (write_buf.len() - 5). Payload 1 ends on the sector
\* boundary: 4091 bytes fill one sector, 4092 need two. Payload 2 needs 256
\* sectors when compressed and is 4 GiB and more when stored uncompressed.
\* The others end on the 255-sector limit.
EncodedLen(value, compression) ==
    CASE value = 1 -> IF compression = 0 THEN B(0, 4092) ELSE B(0, 4091)
      [] value = 2 -> IF compression = 0 THEN B(U32Sectors, 6)
                                         ELSE B(MaxSectorCount - 1, 4092)
      [] OTHER -> IF compression = 0 THEN B(MaxSectorCount - 1, 4091) ELSE B(1, 4091)

\* The decoder a scheme byte selects in read_data.
CodecOf(scheme) ==
    CASE scheme = GZip -> "gzip"
      [] scheme = ZLib -> "zlib"
      [] scheme = Uncompressed -> "raw"
      [] OTHER -> "invalid"

\* ------------------------------------------------------------------------
\* Frames and the bytes of the file
\* ------------------------------------------------------------------------

\* The content of write_buf when write_data reaches the allocation: the
\* five bytes written as [2u8; 5], the encoder's output, the pad zeroes, and
\* (length + 1) as u32 written over the first four bytes. `codec`, `payload`
\* and `enclen` say what the bytes after the scheme byte are; `nbytes` is the
\* size of the buffer.
FrameOf(compression, value) ==
    LET length == EncodedLen(value, compression)
        pad_bytes == pad_size(BAdd(length, 5))
    IN  [length |-> AsU32(BAdd(length, 1)),
         scheme |-> ZLib,
         codec  |-> "zlib",
         payload |-> value,
         enclen |-> length,
         nbytes |-> BAdd(length, 5 + pad_bytes)]

\* What a write that stopped after its first byte leaves in a sector.
TornFrame ==
    [length |-> B(0, 0), scheme |-> 0, codec |-> "torn", payload |-> 0,
     enclen |-> B(0, 0), nbytes |-> B(0, 1)]

\* The data area of the file is a set of runs: sectors start .. start+n-1
\* hold the parts part .. part+n-1 of `frame`. A sector of the file that no
\* run covers holds zeroes.
Run(start, n, frame, part) == [start |-> start, n |-> n, frame |-> frame, part |-> part]

\* The runs of `data` after `n` sectors are overwritten from sector `o`.
Punch(data, o, n) ==
    { Run(r.start, Min(r.n, o - r.start), r.frame, r.part) :
        r \in { q \in data : q.start < o } }
    \cup
    { Run(Max(r.start, o + n), r.start + r.n - Max(r.start, o + n), r.frame,
          r.part + (Max(r.start, o + n) - r.start)) :
        r \in { q \in data : q.start + q.n > o + n } }

\* The sectors that `nbytes` bytes touch.
Touched(nbytes) == nbytes.sec + (IF nbytes.off # 0 THEN 1 ELSE 0)

\* A write of the frame that leaves the end of the file where it was.
WriteFrameAt_NoGrow(file, o, frame) ==
    [file EXCEPT !.data = Punch(file.data, o, Touched(frame.nbytes))
                          \cup {Run(o, Touched(frame.nbytes), frame, 0)}]

\* file_handle.seek(Start(o * 4096)); file_handle.write_all(frame bytes)
WriteFrameAt(file, o, frame) ==
    [file EXCEPT !.data = Punch(file.data, o, Touched(frame.nbytes))
                          \cup {Run(o, Touched(frame.nbytes), frame, 0)},
                 !.size = BMax(file.size, B(o + frame.nbytes.sec, frame.nbytes.off))]

\* The same write failing after its first byte.
WriteTornAt(file, o) == WriteFrameAt(file, o, TornFrame)

\* Decoding the frame `fr` whose first `n` sectors are still in the file.
DecodeFrame(fr, n) ==
    IF fr.length = B(0, 0)
      THEN [status |-> "ChunkNotFound", payload |-> 0]
    ELSE IF CodecOf(fr.scheme) = "invalid"
      THEN [status |-> "InvalidCompressionScheme", payload |-> fr.scheme]
    ELSE IF n < required_sectors(BAdd(fr.length, 4))
      THEN [status |-> "Garbage", payload |-> 0]
    ELSE IF CodecOf(fr.scheme) # fr.codec \/ BAdd(fr.enclen, 1) # fr.length
      THEN [status |-> "DecodeError", payload |-> 0]
    ELSE [status |-> "Ok", payload |-> fr.payload]

\* Reading at sector `o`, which the run `r` covers.
ReadRun(r, o) ==
    IF r.frame.codec = "torn" \/ r.part + (o - r.start) # 0
      THEN [status |-> "Garbage", payload |-> 0]
      ELSE DecodeFrame(r.frame, r.n)

\* A read that goes on to the scheme byte when the length is zero.
ReadCovered_NoZeroCheck(file, o, covering) ==
    IF covering = {}
      THEN IF o < file.size.sec
             THEN [status |-> "InvalidCompressionScheme", payload |-> 0]
             ELSE [status |-> "IoError", payload |-> 0]
      ELSE ReadRun(CHOOSE q \in covering : TRUE, o)

\* Reading at sector `o`, which the runs `covering` cover.
ReadCovered(file, o, covering) ==
    IF covering = {}
      THEN IF o < file.size.sec
             THEN [status |-> "ChunkNotFound", payload |-> 0]
             ELSE [status |-> "IoError", payload |-> 0]
      ELSE ReadRun(CHOOSE q \in covering : TRUE, o)

\* The result of reading and decoding the frame that starts at sector `o`:
\* the 4-byte length, the scheme byte, then length - 1 bytes through the
\* decoder the scheme selects. "Garbage" stands for whatever is decoded from
\* bytes that are not the start of an intact frame.
ReadFrameAt(file, o) ==
    ReadCovered(file, o, { r \in file.data : r.start <= o /\ o < r.start + r.n })

\* ------------------------------------------------------------------------
\* The header tables on disk: 4 bytes per entry, big-endian
\* ------------------------------------------------------------------------

\* write_value(u32): the four bytes, most significant first.
WriteU32(v) == << v \div 16777216, (v \div 65536) % 256, (v \div 256) % 256, v % 256 >>

\* read_value::<u32>()
ReadU32(b) == b[1] * 16777216 + b[2] * 65536 + b[3] * 256 + b[4]

\* write_zeroes(4)
Zeroes4 == << 0, 0, 0, 0 >>

\* RegionHeader::read_from over the first 8192 bytes of the file.
ReadHeader(file) ==
    [sectors |-> [c \in Coords |-> ReadU32(file.sectors[c])],
     timestamps |-> [c \in Coords |-> ReadU32(file.timestamps[c])]]

\* RegionHeader::default()
EmptyHeader == [sectors |-> [c \in Coords |-> RegionSector_empty],
                timestamps |-> [c \in Coords |-> 0]]

\* seek(coord.sector_table_offset()); write_value(sector)
PersistSector(file, coord, sector) == [file EXCEPT !.sectors[coord] = WriteU32(sector)]

\* seek(coord.timestamp_table_offset()); write_value(timestamp)
PersistTimestamp(file, coord, timestamp) ==
    [file EXCEPT !.timestamps[coord] = WriteU32(timestamp)]

\* ------------------------------------------------------------------------
\* RegionFile
\* ------------------------------------------------------------------------

Ret(status, sector) == [status |-> status, sector |-> sector]

\* RegionFile::create: 8192 zero bytes, an empty header, a new manager.
create ==
    [header |-> EmptyHeader,
     sector_manager |-> SectorManager_new,
     file |-> [size |-> B(HeaderSectors, 0),
               sectors |-> [c \in Coords |-> Zeroes4],
               timestamps |-> [c \in Coords |-> Zeroes4],
               data |-> {}]]

\* RegionFile::open on a file of at least 8192 bytes.
OpenWith(file, hdr) ==
    [header |-> hdr, sector_manager |-> SectorManager_from(hdr.sectors), file |-> file]

open(file) == OpenWith(file, ReadHeader(file))

\* A write_data that always asks for a fresh allocation.
OldSector_Empty(self, coord) == RegionSector_empty

\* The sector entry write_data hands to the allocator.
OldSector(self, coord) == self.header.sectors[coord]

\* A write_data that also clears the timestamp of the slot it writes.
WriteSteps_ClearsTimestamp(allocated, coord, frame, new_sector, io) ==
    [self |-> [allocated EXCEPT
                 !.file = PersistSector(WriteFrameAt(@, sector_offset(new_sector), frame),
                                        coord, new_sector),
                 !.header.sectors[coord] = new_sector,
                 !.header.timestamps[coord] = 0],
     ret |-> Ret("Ok", new_sector)]

\* write_data from the seek to the frame's sector on: `allocated` is the
\* instance after the allocation, `new_sector` the sector it returned.
WriteSteps(allocated, coord, frame, new_sector, io) ==
    IF io = "frame"
      THEN [self |-> allocated, ret |-> Ret("IoError", RegionSector_empty)]
    ELSE IF io = "frame_torn"
      THEN [self |-> [allocated EXCEPT !.file = WriteTornAt(@, sector_offset(new_sector))],
            ret |-> Ret("IoError", RegionSector_empty)]
    ELSE IF io = "entry"
      THEN [self |-> [allocated EXCEPT
                        !.file = WriteFrameAt(@, sector_offset(new_sector), frame),
                        !.header.sectors[coord] = new_sector],
            ret |-> Ret("IoError", RegionSector_empty)]
    ELSE [self |-> [allocated EXCEPT
                      !.file = PersistSector(WriteFrameAt(@, sector_offset(new_sector), frame),
                                             coord, new_sector),
                      !.header.sectors[coord] = new_sector],
          ret |-> Ret("Ok", new_sector)]

\* write_data from the allocation on: `alloc` is what reallocate_err returned.
WriteAllocated(self, coord, frame, alloc, io) ==
    IF ~alloc.ok
      THEN [self |-> self, ret |-> Ret("RegionAllocationFailure", RegionSector_empty)]
      ELSE WriteSteps([self EXCEPT !.sector_manager = alloc.sm], coord, frame, alloc.sector, io)

\* write_data from the size check on: `required` is required_sectors.
WriteRequired(self, coord, frame, required, io) ==
    IF required > MaxSectorCount
      THEN [self |-> self, ret |-> Ret("ChunkTooLarge", RegionSector_empty)]
      ELSE WriteAllocated(self, coord, frame,
                          reallocate_err(self.sector_manager, OldSector(self, coord), required),
                          io)

\* RegionFile::write_data. `io` names the I/O step that fails, if any:
\* "frame" (the seek or the write of the frame, nothing written),
\* "frame_torn" (the write of the frame, after its first byte),
\* "entry" (the seek or the write of the sector entry).
write_data(self, coord, compression, value, io) ==
    WriteRequired(self, coord, FrameOf(compression, value),
                  required_sectors(AsU32(BAdd(EncodedLen(value, compression), 5))), io)

\* write_timestamped after write_data returned `w`.
Stamp(w, coord, timestamp, io) ==
    IF w.ret.status # "Ok" THEN w
    ELSE IF io = "ts"
      THEN [self |-> [w.self EXCEPT !.header.timestamps[coord] = timestamp],
            ret |-> Ret("IoError", RegionSector_empty)]
    ELSE [self |-> [w.self EXCEPT !.header.timestamps[coord] = timestamp,
                                  !.file = PersistTimestamp(@, coord, timestamp)],
          ret |-> w.ret]

\* RegionFile::write_timestamped. `io` is a failing step of write_data or
\* "ts" (the seek or the write of the timestamp).
write_timestamped(self, coord, compression, value, timestamp, io) ==
    Stamp(write_data(self, coord, compression, value, IF io = "ts" THEN "none" ELSE io),
          coord, timestamp, io)

\* read_data once the sector entry is read.
ReadSector(self, sector) ==
    IF is_empty(sector)
      THEN [status |-> "ChunkNotFound", payload |-> 0]
      ELSE ReadFrameAt(self.file, sector_offset(sector))

\* RegionFile::read_data
read_data(self, coord) == ReadSector(self, self.header.sectors[coord])

\* A delete_data that leaves the timestamp of the slot on disk.
DeleteSteps_KeepsTimestamp(self, coord, sector, io) ==
    [self |-> [self EXCEPT !.file.sectors[coord] = Zeroes4], ret |-> Ret("Ok", sector)]

\* delete_data of a non-empty `sector`.
DeleteSteps(self, coord, sector, io) ==
    IF io = "entry"
      THEN [self |-> self, ret |-> Ret("IoError", RegionSector_empty)]
    ELSE IF io = "ts"
      THEN [self |-> [self EXCEPT !.file.sectors[coord] = Zeroes4],
            ret |-> Ret("IoError", RegionSector_empty)]
    ELSE [self |-> [self EXCEPT !.file.sectors[coord] = Zeroes4,
                                !.file.timestamps[coord] = Zeroes4],
          ret |-> Ret("Ok", sector)]

\* A delete_data that frees the sector and keeps its entry in memory.
DeleteInMemory_KeepsEntry(self, coord, sector) ==
    [self EXCEPT !.sector_manager = free(@, sector)]

\* delete_data up to the first seek: the sector is freed and both header
\* entries are cleared in memory.
DeleteInMemory(self, coord, sector) ==
    [self EXCEPT !.sector_manager = free(@, sector),
                 !.header.sectors[coord] = RegionSector_empty,
                 !.header.timestamps[coord] = 0]

\* A delete_data that reports a slot that is already empty.
DeleteSector_Reports(self, coord, sector, io) ==
    IF is_empty(sector) THEN [self |-> self, ret |-> Ret("ChunkNotFound", sector)]
    ELSE DeleteSteps(DeleteInMemory(self, coord, sector), coord, sector, io)

\* delete_data once the sector entry is read.
DeleteSector(self, coord, sector, io) ==
    IF is_empty(sector) THEN [self |-> self, ret |-> Ret("Ok", sector)]
    ELSE DeleteSteps(DeleteInMemory(self, coord, sector), coord, sector, io)

\* RegionFile::delete_data. `io` is "entry" (the seek or the write of the
\* four zero bytes of the sector entry) or "ts" (those of the timestamp).
delete_data(self, coord, io) == DeleteSector(self, coord, self.header.sectors[coord], io)

\* ------------------------------------------------------------------------
\* RegionReader: the decode paths over a file at a path
\* ------------------------------------------------------------------------

\* The path holds no file.
NoFile == [absent |-> TRUE]

\* File::open(path) succeeds and the 8192 bytes of the header can be read.
HasHeader(f) == f # NoFile /\ f.size.sec >= HeaderSectors

\* The first byte of a zlib stream (CMF: deflate, 32 KiB window) and of a
\* gzip stream (ID1).
ZlibHead == 120
GzipHead == 31

\* The first byte a payload writes (an NBT compound tag).
PayloadHead(value) == 10

\* The byte at offset +5 of a frame: the first byte after the scheme byte.
StreamHead(fr) ==
    CASE fr.enclen = B(0, 0) -> 0
      [] fr.codec = "zlib" -> ZlibHead
      [] fr.codec = "gzip" -> GzipHead
      [] OTHER -> PayloadHead(fr.payload)

\* copy_from_region_sectors after the length: one byte is read into the
\* buffer and dropped, CompressionScheme::read_from reads the next one, and
\* the decoder it selects takes length - 1 bytes from there on.
CopyDecode(fr, n) ==
    IF fr.length = B(0, 0)
      THEN [status |-> "Ok", payload |-> 0]
    ELSE IF CodecOf(StreamHead(fr)) = "invalid"
      THEN [status |-> "InvalidCompressionScheme", payload |-> StreamHead(fr)]
    ELSE IF CodecOf(StreamHead(fr)) = "raw"
      THEN [status |-> "Garbage", payload |-> 0]
    ELSE [status |-> "DecodeError", payload |-> 0]

\* copy_data_from_sector with the reader at the start of sector `o`, which
\* the runs `covering` cover: the decoded bytes go to the writer.
CopyCovered(file, o, covering) ==
    IF covering = {}
      THEN IF o < file.size.sec
             THEN [status |-> "Ok", payload |-> 0]
             ELSE [status |-> "IoError", payload |-> 0]
      ELSE LET r == CHOOSE q \in covering : TRUE
           IN  IF r.frame.codec = "torn" \/ r.part + (o - r.start) # 0
                 THEN [status |-> "Garbage", payload |-> 0]
                 ELSE CopyDecode(r.frame, r.n)

\* RegionReader::copy_data_from_sector
copy_data_from_sector(file, o) ==
    CopyCovered(file, o, { r \in file.data : r.start <= o /\ o < r.start + r.n })

\* read_from_region_sectors: None for a length of zero, else the payload
\* decoded as RegionFile::read_data decodes it.
NoneIfAbsent(r) == IF r.status = "ChunkNotFound" THEN [status |-> "Ok", payload |-> 0] ELSE r

\* RegionReader::read_data_from_sector
read_data_from_sector(file, o) == NoneIfAbsent(ReadFrameAt(file, o))

\* RegionReader::read_offset
read_offset(file, coord) == ReadU32(file.sectors[coord])

\* RegionReader::copy_data_at_coord, on a file that was opened for it.
copy_data_at_coord(file, coord) ==
    IF ~HasHeader(file) THEN [status |-> "IoError", payload |-> 0]
    ELSE IF is_empty(read_offset(file, coord)) THEN [status |-> "Ok", payload |-> 0]
    ELSE copy_data_from_sector(file, sector_offset(read_offset(file, coord)))

\* RegionReader::read_data_at_coord, on a file that was opened for it.
read_data_at_coord(file, coord) ==
    IF ~HasHeader(file) THEN [status |-> "IoError", payload |-> 0]
    ELSE IF is_empty(read_offset(file, coord)) THEN [status |-> "Ok", payload |-> 0]
    ELSE read_data_from_sector(file, sector_offset(read_offset(file, coord)))

\* ------------------------------------------------------------------------
\* RegionWriter: frames appended to the file that is being built
\* ------------------------------------------------------------------------

\* What a RegionWriter call returns: the file it writes and a sector.
Wrote(status, out, sector) == [status |-> status, out |-> out, sector |-> sector]

\* RegionWriter::sector_offset: (stream_position as u32) >> 12. The writers
\* below only append, so the stream position is the size of the file.
writer_sector_offset(out) == out.size.sec % U32Sectors

\* copy_chunk_from once the non-zero length of the frame of run `r` is read:
\* the length, then `length` bytes and the pad zeroes are appended to `out`.
\* A run that holds less of the frame than `length` says makes the copy take
\* in the bytes that follow it.
CopyFrame(out, r, sectors, pad) ==
    Wrote("Ok",
          WriteFrameAt(out, out.size.sec,
                       [r.frame EXCEPT !.nbytes = BAdd(r.frame.length, 4 + pad),
                                       !.codec = IF r.n < sectors THEN "torn" ELSE @]),
          RegionSector_new(writer_sector_offset(out), sectors % 256))

\* The I/O steps of copy_chunk_from that may fail: reading the length, and
\* writing the length, the bytes and the pad.
CopyIoSteps == {"read", "copy"}

\* copy_chunk_from with the reader at the start of sector `o` of `input`,
\* which the runs `covering` cover; the step `io` fails.
CopyChunkCovered(out, input, o, covering, io) ==
    IF out.size.off # 0 THEN Wrote("StreamSectorBoundaryError", out, RegionSector_empty)
    ELSE IF io = "read" THEN Wrote("IoError", out, RegionSector_empty)
    ELSE IF covering = {}
      THEN IF o < input.size.sec
             THEN Wrote("ChunkNotFound", out, RegionSector_empty)
             ELSE Wrote("IoError", out, RegionSector_empty)
    ELSE LET r == CHOOSE q \in covering : TRUE
         IN  IF r.frame.codec = "torn" \/ r.part + (o - r.start) # 0
               THEN Wrote("Garbage", out, RegionSector_empty)
             ELSE IF r.frame.length = B(0, 0)
               THEN Wrote("ChunkNotFound", out, RegionSector_empty)
             ELSE IF io = "copy" THEN Wrote("IoError", out, RegionSector_empty)
             ELSE CopyFrame(out, r,
                            required_sectors(AsU32(BAdd(r.frame.length, 4))),
                            pad_size(AsU32(BAdd(r.frame.length, 4))))

\* RegionWriter::copy_chunk_from, in which the step `io` fails ("none": no
\* step does).
copy_chunk_from(out, input, o, io) ==
    CopyChunkCovered(out, input, o,
                     { r \in input.data : r.start <= o /\ o < r.start + r.n }, io)

\* write_data_to_sector once the encoder finished: `length` is
\* (final_offset - sector_offset) - 4, the scheme byte and the stream.
WriteEncoded(out, value, enclen, length) ==
    Wrote("Ok",
          WriteFrameAt(out, out.size.sec,
                       [length |-> AsU32(length), scheme |-> ZLib, codec |-> "zlib",
                        payload |-> value, enclen |-> enclen,
                        nbytes |-> BAdd(length, 4 + pad_size(BAdd(length, 4)))]),
          RegionSector_new(out.size.sec,
                           required_sectors(AsU32(BAdd(AsU32(length), 4))) % 256))

\* write_data_to_sector when `self.writer.write(&[0u8; 4])` failed: its
\* result is dropped, so the scheme byte goes to the start of the sector and
\* the stream behind it; `length` is (final_offset - sector_offset) - 4,
\* three bytes less than the stream, and the length written at the end
\* covers the scheme byte and the first three bytes of the stream. The byte
\* at frame offset +4 is the fourth byte of the stream (shown as 255).
WriteShifted(out, value, enclen, length) ==
    Wrote("Ok",
          WriteFrameAt(out, out.size.sec,
                       [length |-> AsU32(length), scheme |-> 255, codec |-> "shifted",
                        payload |-> value, enclen |-> enclen,
                        nbytes |-> BAdd(length, 4 + pad_size(BAdd(length, 4)))]),
          RegionSector_new(out.size.sec,
                           required_sectors(AsU32(BAdd(AsU32(length), 4))) % 256))

\* The I/O steps of write_data_to_sector that may fail: the write of the
\* four placeholder bytes, the writes of the scheme byte, the stream and the
\* pad, and the seek back and write of the length.
SectorIoSteps == {"placeholder", "stream", "length"}

\* RegionWriter::write_data_to_sector, in which the step `io` fails ("none":
\* no step does).
write_data_to_sector(out, compression, value, io) ==
    IF out.size.off # 0 THEN Wrote("StreamSectorBoundaryError", out, RegionSector_empty)
    ELSE IF io = "placeholder"
      THEN WriteShifted(out, value, EncodedLen(value, compression),
                        BAdd(EncodedLen(value, compression), 1 - 4))
    ELSE IF io \in SectorIoSteps THEN Wrote("IoError", out, RegionSector_empty)
    ELSE WriteEncoded(out, value, EncodedLen(value, compression),
                      BAdd(EncodedLen(value, compression), 1))

\* ------------------------------------------------------------------------
\* The functions that rebuild the file at a path through a temporary file
\* ------------------------------------------------------------------------

\* A RegionCoord::new that packs x and z without reducing them to 5 bits.
RegionCoord_new_NoMask(x, z) == x + z * 32

\* RegionCoord::new(x, z): (x & 31) | ((z & 31) << 5)
RegionCoord_new(x, z) == (x % 32) + (z % 32) * 32

\* From<(T, T)> for RegionCoord: Self::new(value.0 as u16, value.1 as u16)
RegionCoord_from_tuple(x, z) == RegionCoord_new(x % 65536, z % 65536)

\* From<T> for RegionCoord: Self(value as u16)
RegionCoord_from(value) == value % 65536

\* RegionCoord::index: self.0 as usize
RegionCoord_index(coord) == coord

\* RegionCoord::x: self.0 & 31
RegionCoord_x(coord) == coord % 32

\* RegionCoord::z: (self.0 >> 5) & 31
RegionCoord_z(coord) == (coord \div 32) % 32

\* write_zeroes(1024*8) into a new file.
ZeroHeaderFile ==
    [size |-> B(HeaderSectors, 0),
     sectors |-> [c \in Coords |-> Zeroes4],
     timestamps |-> [c \in Coords |-> Zeroes4],
     data |-> {}]

\* create_empty_region_file
create_empty_region_file == ZeroHeaderFile

\* The temporary file and the header tables kept in memory while the slots
\* are processed; `status` is the first error, if any.
Building(status, out, hdr) == [status |-> status, out |-> out, header |-> hdr]

\* header.sectors[i] = writer.copy_chunk_from(&mut reader)?  and
\* header.sectors[i] = writer.write_data_to_sector(compression, chunk)?
SetSector(b, i, w) ==
    IF w.status # "Ok" THEN Building(w.status, w.out, b.header)
    ELSE Building("Ok", w.out, [b.header EXCEPT !.sectors[i] = w.sector])

\* The I/O step that fails in a call: `step` while slot `slot` is processed,
\* or the "finish" step behind the slot loop.
NoFail == [slot |-> 0, step |-> "none"]

Fails ==
    [slot : Coords, step : CopyIoSteps \cup SectorIoSteps]
        \cup {[slot |-> NumCoords, step |-> "finish"]}

\* The step that fails while slot `i` is processed.
IoAt(fail, i) == IF fail.slot = i THEN fail.step ELSE "none"

\* reader.seek(sector.seeker()); header.sectors[i] = writer.copy_chunk_from(..)?
CopySlot(b, input, i, io) ==
    SetSector(b, i, copy_chunk_from(b.out, input, sector_offset(b.header.sectors[i]), io))

\* What the building part of a call hands to the final copy.
Built(status, temp) == [status |-> status, temp |-> temp]

\* seek(0), the write of the tables or flush fails after the slot loop.
FinishIo(b, fail) ==
    IF b.status = "Ok" /\ fail.slot = NumCoords /\ fail.step = "finish"
      THEN [b EXCEPT !.status = "IoError"] ELSE b

\* A rebuild that leaves the sector table of the temporary file zeroed.
FinishSectors_Blank(b) ==
    IF b.status # "Ok" THEN Built(b.status, NoFile) ELSE Built("Ok", b.out)

\* seek(0); sectors.write_to(writer); flush
FinishSectors(b) ==
    IF b.status # "Ok" THEN Built(b.status, NoFile)
    ELSE Built("Ok", [b.out EXCEPT !.sectors = [c \in Coords |-> WriteU32(b.header.sectors[c])]])

\* seek(0); header.write_to(writer); flush
FinishHeader(b) ==
    IF b.status # "Ok" THEN Built(b.status, NoFile)
    ELSE Built("Ok", [b.out EXCEPT
                        !.sectors = [c \in Coords |-> WriteU32(b.header.sectors[c])],
                        !.timestamps = [c \in Coords |-> WriteU32(b.header.timestamps[c])]])

RECURSIVE RebuildSlots(_, _, _, _)
\* The slot loop of rebuild_region_file from slot `i` on.
RebuildSlots(b, input, i, fail) ==
    IF i = NumCoords \/ b.status # "Ok" THEN b
    ELSE IF is_empty(b.header.sectors[i]) THEN RebuildSlots(b, input, i + 1, fail)
    ELSE RebuildSlots(CopySlot(b, input, i, IoAt(fail, i)), input, i + 1, fail)

\* A rebuild that leaves the timestamp table of the temporary file zeroed.
rebuild_region_file_NoTimestamps(input, fail) ==
    IF ~HasHeader(input) THEN Built("IoError", NoFile)
    ELSE FinishSectors(
           FinishIo(RebuildSlots(Building("Ok", ZeroHeaderFile, ReadHeader(input)),
                                 input, 0, fail),
                    fail))

\* rebuild_region_file up to the final copy: the sector table is read, the
\* temporary file gets 4096 zeroes and the 4096 bytes of the timestamp
\* table, then the slots are copied in index order. The step `fail` fails.
rebuild_region_file(input, fail) ==
    IF ~HasHeader(input) THEN Built("IoError", NoFile)
    ELSE FinishSectors(
           FinishIo(RebuildSlots(Building("Ok",
                                          [ZeroHeaderFile EXCEPT
                                             !.timestamps = input.timestamps],
                                          ReadHeader(input)),
                                 input, 0, fail),
                    fail))

\* header.sectors[i] = RegionSector::empty(); header.timestamps[i] = Timestamp(0)
ClearSlot(b, i) ==
    Building("Ok", b.out, [sectors |-> [b.header.sectors EXCEPT ![i] = RegionSector_empty],
                           timestamps |-> [b.header.timestamps EXCEPT ![i] = 0]])

RECURSIVE DeleteSlots(_, _, _, _, _)
\* The slot loop of delete_chunks from slot `i` on.
DeleteSlots(b, input, delete, i, fail) ==
    IF i = NumCoords \/ b.status # "Ok" THEN b
    ELSE IF i \in delete THEN DeleteSlots(ClearSlot(b, i), input, delete, i + 1, fail)
    ELSE IF is_empty(b.header.sectors[i]) THEN DeleteSlots(b, input, delete, i + 1, fail)
    ELSE DeleteSlots(CopySlot(b, input, i, IoAt(fail, i)), input, delete, i + 1, fail)

\* delete_chunks up to the final copy; `delete` is the set of slot indices
\* the coordinates of the call mark. The step `fail` fails.
delete_chunks(input, delete, fail) ==
    IF ~HasHeader(input) THEN Built("IoError", NoFile)
    ELSE FinishHeader(
           FinishIo(DeleteSlots(Building("Ok", ZeroHeaderFile, ReadHeader(input)),
                                input, delete, 0, fail),
                    fail))

\* chunks[i] of write_chunks when no input entry targets slot i.
None == 0

RECURSIVE CollectChunks(_, _, _)
\* The try_for_each of write_chunks over the entries << x, z, value >> of
\* `it` from entry `k` on: the slot array, or DuplicateChunk.
CollectChunks(chunks, it, k) ==
    IF k > Len(it) THEN [status |-> "Ok", chunks |-> chunks]
    ELSE IF chunks[RegionCoord_new(it[k][1], it[k][2])] # None
      THEN [status |-> "DuplicateChunk", chunks |-> chunks]
    ELSE CollectChunks([chunks EXCEPT ![RegionCoord_new(it[k][1], it[k][2])] = it[k][3]],
                       it, k + 1)

\* header.sectors[i] = writer.write_data_to_sector(compression, chunk)?;
\* header.timestamps[i] = timestamp
WriteSlot(b, i, w, timestamp) ==
    IF w.status # "Ok" THEN Building(w.status, w.out, b.header)
    ELSE Building("Ok", w.out, [sectors |-> [b.header.sectors EXCEPT ![i] = w.sector],
                                timestamps |-> [b.header.timestamps EXCEPT ![i] = timestamp]])

RECURSIVE WriteSlots(_, _, _, _, _, _, _)
\* The slot loop of write_chunks from slot `i` on.
WriteSlots(b, input, chunks, compression, timestamp, i, fail) ==
    IF i = NumCoords \/ b.status # "Ok" THEN b
    ELSE IF chunks[i] # None
      THEN WriteSlots(WriteSlot(b, i,
                                write_data_to_sector(b.out, compression, chunks[i],
                                                     IoAt(fail, i)),
                                timestamp),
                      input, chunks, compression, timestamp, i + 1, fail)
    ELSE IF is_empty(b.header.sectors[i])
      THEN WriteSlots(b, input, chunks, compression, timestamp, i + 1, fail)
    ELSE WriteSlots(CopySlot(b, input, i, IoAt(fail, i)), input, chunks, compression,
                    timestamp, i + 1, fail)

\* if !path.is_file() { create_empty_region_file(path)? }
EnsureFile(path) == IF path = NoFile THEN create_empty_region_file ELSE path

\* write_chunks after the file at the path is made sure of, up to the final
\* copy: the entries are collected, then the file `input` is rebuilt.
WriteCollected(input, collected, compression, timestamp, fail) ==
    IF collected.status # "Ok" THEN Built(collected.status, NoFile)
    ELSE IF ~HasHeader(input) THEN Built("IoError", NoFile)
    ELSE FinishHeader(
           FinishIo(WriteSlots(Building("Ok", ZeroHeaderFile, ReadHeader(input)), input,
                               collected.chunks, compression, timestamp, 0, fail),
                    fail))

\* write_chunks up to the final copy. The step `fail` fails.
write_chunks(path, compression, timestamp, it, fail) ==
    WriteCollected(EnsureFile(path), CollectChunks([c \in Coords |-> None], it, 1),
                   compression, timestamp, fail)

\* std::fs::copy(tempfile_path, path) opens the file at `path` for writing,
\* which creates or truncates it, before it copies the bytes.
Truncated ==
    [size |-> B(0, 0),
     sectors |-> [c \in Coords |-> Zeroes4],
     timestamps |-> [c \in Coords |-> Zeroes4],
     data |-> {}]

\* ------------------------------------------------------------------------
\* The state machine: one RegionFile instance and the file under it
\* ------------------------------------------------------------------------

VARIABLES
    header,          \* RegionFile.header: the two tables in memory
    sector_manager,  \* RegionFile.sector_manager
    file,            \* the file under file_handle: size, header tables, data
    result,          \* the last call: its arguments and what it returned
    ops,             \* calls made so far
    ioFailures,      \* calls so far that failed at an I/O step
    job              \* the call of a path-level function that is under way

vars == << header, sector_manager, file, result, ops, ioFailures, job >>

\* No path-level function is running.
Idle == [pc |-> "idle"]

Self == [header |-> header, sector_manager |-> sector_manager, file |-> file]

\* A frame of a file that another program wrote: GZip, 100 bytes.
ForeignFrame ==
    [length |-> B(0, 101), scheme |-> GZip, codec |-> "gzip", payload |-> 1,
     enclen |-> B(0, 100), nbytes |-> B(1, 0)]

\* Valid region files that exist before the instance is opened: one whose
\* slot 0 is allocated at sector 2 with a frame length of zero, and one
\* whose last slot holds a GZip frame at sector 4 behind a two-sector gap.
ExistingFiles ==
    { [size |-> B(3, 0),
       sectors |-> [c \in Coords |-> IF c = 0 THEN WriteU32(RegionSector_new(2, 1)) ELSE Zeroes4],
       timestamps |-> [c \in Coords |-> Zeroes4],
       data |-> {}],
      [size |-> B(5, 0),
       sectors |-> [c \in Coords |-> IF c = NumCoords - 1
                                       THEN WriteU32(RegionSector_new(4, 1)) ELSE Zeroes4],
       timestamps |-> [c \in Coords |-> IF c = NumCoords - 1 THEN WriteU32(77) ELSE Zeroes4],
       data |-> {Run(4, 1, ForeignFrame, 0)}] }

Call(op, coord, compression, value, timestamp, io, status, sector, payload) ==
    [op |-> op, coord |-> coord, compression |-> compression, value |-> value,
     timestamp |-> timestamp, io |-> io, status |-> status, sector |-> sector,
     payload |-> payload]

Init ==
    /\ \E start \in {[op |-> "create", self |-> create]}
                    \cup { [op |-> "open", self |-> open(f)] : f \in ExistingFiles } :
          /\ header = start.self.header
          /\ sector_manager = start.self.sector_manager
          /\ file = start.self.file
          /\ result = Call(start.op, 0, 0, 0, 0, "none", "Ok", RegionSector_empty, 0)
    /\ ops = 0
    /\ ioFailures = 0
    /\ job = Idle

\* The call `call` returned `r`: the instance and the file are as it left them.
Commit(r, call) ==
    /\ call.io # "none" => r.ret.status = "IoError"
    /\ header' = r.self.header
    /\ sector_manager' = r.self.sector_manager
    /\ file' = r.self.file
    /\ result' = [call EXCEPT !.status = r.ret.status, !.sector = r.ret.sector]

\* A call of write_data with the failing step `io`.
WriteDataCall(io) ==
    \E coord \in Coords, compression \in Levels, value \in Payloads :
        Commit(write_data(Self, coord, compression, value, io),
               Call("write_data", coord, compression, value, 0, io, "", 0, 0))

\* A call of write_timestamped with the failing step `io`.
WriteTimestampedCall(io) ==
    \E coord \in Coords, compression \in Levels, value \in Payloads, timestamp \in Timestamps :
        Commit(write_timestamped(Self, coord, compression, value, timestamp, io),
               Call("write_timestamped", coord, compression, value, timestamp, io, "", 0, 0))

\* A call of delete_data with the failing step `io`.
DeleteDataCall(io) ==
    \E coord \in Coords :
        Commit(delete_data(Self, coord, io),
               Call("delete_data", coord, 0, 0, 0, io, "", 0, 0))

\* A call of read_data returned `r`.
Observe(r, coord) ==
    result' = Call("read_data", coord, 0, 0, 0, "none", r.status, header.sectors[coord],
                   r.payload)

\* A new instance `r` replaces the one in use.
Replace(r) ==
    /\ header' = r.header
    /\ sector_manager' = r.sector_manager

WriteData ==
    /\ ops < MaxOps
    /\ WriteDataCall("none")
    /\ ops' = ops + 1
    /\ UNCHANGED << ioFailures, job >>

WriteTimestamped ==
    /\ ops < MaxOps
    /\ WriteTimestampedCall("none")
    /\ ops' = ops + 1
    /\ UNCHANGED << ioFailures, job >>

DeleteData ==
    /\ ops < MaxOps
    /\ DeleteDataCall("none")
    /\ ops' = ops + 1
    /\ UNCHANGED << ioFailures, job >>

ReadData ==
    /\ ops < MaxOps
    /\ \E coord \in Coords : Observe(read_data(Self, coord), coord)
    /\ ops' = ops + 1
    /\ UNCHANGED << header, sector_manager, file, ioFailures, job >>

\* The instance is dropped and the same path is opened again.
Reopen ==
    /\ ops < MaxOps
    /\ Replace(open(file))
    /\ result' = Call("open", 0, 0, 0, 0, "none", "Ok", RegionSector_empty, 0)
    /\ ops' = ops + 1
    /\ UNCHANGED << file, ioFailures, job >>

\* The calls in which an I/O step fails.
WriteDataFails ==
    /\ ops < MaxIoOps /\ ioFailures < MaxIoFailures
    /\ \E io \in {"frame", "frame_torn", "entry"} : WriteDataCall(io)
    /\ ops' = ops + 1
    /\ ioFailures' = ioFailures + 1
    /\ UNCHANGED job

WriteTimestampedFails ==
    /\ ops < MaxIoOps /\ ioFailures < MaxIoFailures
    /\ \E io \in {"frame", "frame_torn", "entry", "ts"} : WriteTimestampedCall(io)
    /\ ops' = ops + 1
    /\ ioFailures' = ioFailures + 1
    /\ UNCHANGED job

DeleteDataFails ==
    /\ ops < MaxIoOps /\ ioFailures < MaxIoFailures
    /\ \E io \in {"entry", "ts"} : DeleteDataCall(io)
    /\ ops' = ops + 1
    /\ ioFailures' = ioFailures + 1
    /\ UNCHANGED job

Next == WriteData \/ WriteTimestamped \/ DeleteData \/ ReadData \/ Reopen

\* Every call returns without an I/O failure.
Spec == Init /\ [][Next]_vars

NextIo ==
    \/ ops < MaxIoOps /\ Next
    \/ WriteDataFails
    \/ WriteTimestampedFails
    \/ DeleteDataFails

\* I/O steps may fail.
SpecIo == Init /\ [][NextIo]_vars

\* ------------------------------------------------------------------------
\* The state machine of the functions that work on the file at a path
\* ------------------------------------------------------------------------

\* A file that RegionFile wrote: the last slot first, at sector 2, then
\* slot 0 behind it with a frame of two sectors.
OutOfOrderFile ==
    write_data(write_data(create, NumCoords - 1, 9, 1, "none").self,
               0, 0, 1, "none").self.file

\* The files at the path before the first call: none, or a valid region file.
BulkFiles == {NoFile, OutOfOrderFile} \cup ExistingFiles

\* The coordinates the calls are made with: the slots, and (32, 32), which
\* is slot 0 again.
XZ == { << c, 0 >> : c \in Coords } \cup { << 32, 32 >> }

\* The entries of a write_chunks call.
ChunkEntries == { << xz[1], xz[2], value >> : xz \in XZ, value \in Payloads }

\* The inputs of write_chunks: no entry, one entry, or an entry followed by
\* an entry of payload 1.
ChunkLists ==
    { << >> } \cup { << e >> : e \in ChunkEntries }
              \cup { << e, << xz[1], xz[2], 1 >> >> : e \in ChunkEntries, xz \in XZ }

InitBulk ==
    /\ file \in BulkFiles
    /\ header = EmptyHeader
    /\ sector_manager = SectorManager_new
    /\ result = Call("none", 0, 0, 0, 0, "none", "Ok", RegionSector_empty, 0)
    /\ ops = 0
    /\ ioFailures = 0
    /\ job = Idle

\* Two entries of `it` normalize to the same RegionCoord.
HasDuplicate(it) ==
    \E j \in 1 .. Len(it), k \in 1 .. Len(it) :
        j < k /\ RegionCoord_new(it[j][1], it[j][2]) = RegionCoord_new(it[k][1], it[k][2])

\* No call is running.
NoCallRunning == job.pc \in {"idle", "done"}

\* The last call on the path was a rebuild_region_file that returned Ok:
\* job.before is its input and `file` its output.
RebuildDone ==
    job.pc = "done" /\ job.op = "rebuild_region_file" /\ job.temp # NoFile

\* The call `op`, in which the step `fail` fails, built the temporary file
\* `b.temp`, or failed with `b.status`; `path` is the file at the path when
\* it gets there and
\* `duplicate` tells whether two of its entries name the same slot.
\* job.rebuilt tells whether the file the call started from is the output
\* of a rebuild_region_file.
Begin(op, fail, duplicate, path, b) ==
    /\ ops' = ops + 1
    /\ file' = path
    /\ job' = [pc |-> IF b.status = "Ok" THEN "copy" ELSE "done", op |-> op,
               duplicate |-> duplicate, before |-> file, temp |-> b.temp, rebuilt |-> RebuildDone]
    /\ result' = Call(op, fail.slot, 0, 0, 0, fail.step,
                      IF b.status = "Ok" THEN "Running" ELSE b.status,
                      RegionSector_empty, 0)
    /\ UNCHANGED << header, sector_manager >>

\* rebuild_region_file(path, path) up to the final copy.
RebuildRegionFile ==
    /\ NoCallRunning /\ ops < MaxBulkOps
    /\ Begin("rebuild_region_file", NoFail, FALSE, file, rebuild_region_file(file, NoFail))
    /\ UNCHANGED ioFailures

\* delete_chunks(path, coordinates) up to the final copy.
DeleteChunks ==
    /\ NoCallRunning /\ ops < MaxBulkOps
    /\ \E xzs \in SUBSET XZ :
        Begin("delete_chunks", NoFail, FALSE, file,
              delete_chunks(file, { RegionCoord_new(xz[1], xz[2]) : xz \in xzs }, NoFail))
    /\ UNCHANGED ioFailures

\* write_chunks(path, compression, timestamp, entries) up to the final copy.
WriteChunks ==
    /\ NoCallRunning /\ ops < MaxBulkOps
    /\ \E compression \in Levels, timestamp \in Timestamps, it \in ChunkLists :
        Begin("write_chunks", NoFail, HasDuplicate(it), EnsureFile(file),
              write_chunks(file, compression, timestamp, it, NoFail))
    /\ UNCHANGED ioFailures

\* std::fs::copy opened the file at the path for writing.
CopyTruncate ==
    /\ job.pc = "copy"
    /\ file' = Truncated
    /\ job' = [job EXCEPT !.pc = "copying"]
    /\ UNCHANGED << header, sector_manager, result, ops, ioFailures >>

\* std::fs::copy wrote the bytes of the temporary file; the call returns.
CopyFinish ==
    /\ job.pc = "copying"
    /\ file' = job.temp
    /\ job' = [job EXCEPT !.pc = "done"]
    /\ result' = [result EXCEPT !.status = "Ok"]
    /\ UNCHANGED << header, sector_manager, ops, ioFailures >>

\* A read-only call on a RegionReader over the file at the path returned `r`.
ReaderCall(op, coord, r) ==
    /\ ops' = ops + 1
    /\ result' = Call(op, coord, 0, 0, 0, "none", r.status, RegionSector_empty, r.payload)
    /\ UNCHANGED << header, sector_manager, file, ioFailures, job >>

\* RegionReader::copy_data_at_coord, the decode path of extract_all_chunks.
CopyDataAtCoord ==
    /\ NoCallRunning /\ ops < MaxBulkOps
    /\ \E coord \in Coords : ReaderCall("copy_data_at_coord", coord, copy_data_at_coord(file, coord))

\* RegionReader::read_data_at_coord, the decode path of read_chunks.
ReadDataAtCoord ==
    /\ NoCallRunning /\ ops < MaxBulkOps
    /\ \E coord \in Coords : ReaderCall("read_data_at_coord", coord, read_data_at_coord(file, coord))

NextBulk ==
    \/ RebuildRegionFile
    \/ DeleteChunks
    \/ WriteChunks
    \/ CopyTruncate
    \/ CopyFinish
    \/ CopyDataAtCoord
    \/ ReadDataAtCoord

\* The calls on the file at a path, one after another.
SpecBulk == InitBulk /\ [][NextBulk]_vars

\* A rebuild_region_file in which an I/O step that it gets to fails.
RebuildRegionFileFails ==
    /\ NoCallRunning /\ ops < MaxBulkOps /\ ioFailures < MaxIoFailures
    /\ \E fail \in Fails :
        /\ rebuild_region_file(file, fail) # rebuild_region_file(file, NoFail)
        /\ Begin("rebuild_region_file", fail, FALSE, file, rebuild_region_file(file, fail))
    /\ ioFailures' = ioFailures + 1

\* A delete_chunks in which an I/O step that it gets to fails.
DeleteChunksFails ==
    /\ NoCallRunning /\ ops < MaxBulkOps /\ ioFailures < MaxIoFailures
    /\ \E xzs \in SUBSET XZ, fail \in Fails :
        /\ delete_chunks(file, { RegionCoord_new(xz[1], xz[2]) : xz \in xzs }, fail)
             # delete_chunks(file, { RegionCoord_new(xz[1], xz[2]) : xz \in xzs }, NoFail)
        /\ Begin("delete_chunks", fail, FALSE, file,
                 delete_chunks(file, { RegionCoord_new(xz[1], xz[2]) : xz \in xzs }, fail))
    /\ ioFailures' = ioFailures + 1

\* A write_chunks in which an I/O step that it gets to fails.
WriteChunksFails ==
    /\ NoCallRunning /\ ops < MaxBulkOps /\ ioFailures < MaxIoFailures
    /\ \E compression \in Levels, timestamp \in Timestamps, it \in ChunkLists,
          fail \in Fails :
        /\ write_chunks(file, compression, timestamp, it, fail)
             # write_chunks(file, compression, timestamp, it, NoFail)
        /\ Begin("write_chunks", fail, HasDuplicate(it), EnsureFile(file),
                 write_chunks(file, compression, timestamp, it, fail))
    /\ ioFailures' = ioFailures + 1

NextBulkIo ==
    \/ NextBulk
    \/ RebuildRegionFileFails
    \/ DeleteChunksFails
    \/ WriteChunksFails

\* The calls on the file at a path, in which I/O steps may fail.
SpecBulkIo == InitBulk /\ [][NextBulkIo]_vars

\* ------------------------------------------------------------------------
\* The state machine of a RegionFile opened on a file that is already there
\* ------------------------------------------------------------------------

\* RegionFile::open(path): an I/O error without a file, InvalidRegionFile
\* for a file of less than 8192 bytes, else the instance made of the header
\* that is read and SectorManager::from over its sector table.
RegionFile_open(path) ==
    IF path = NoFile THEN [status |-> "IoError", self |-> create]
    ELSE IF path.size.sec < HeaderSectors THEN [status |-> "InvalidRegionFile", self |-> create]
    ELSE [status |-> "Ok", self |-> open(path)]

\* A file of `size` whose slot 0 has the sector entry `first` and whose last
\* slot has the entry `last`; the sectors behind the header hold zeroes.
HeaderOnly(size, first, last) ==
    [size |-> size,
     sectors |-> [c \in Coords |-> IF c = 0 THEN WriteU32(first)
                                   ELSE IF c = NumCoords - 1 THEN WriteU32(last)
                                   ELSE Zeroes4],
     timestamps |-> [c \in Coords |-> Zeroes4],
     data |-> {}]

\* Files that are not valid region files: shorter than the header; two
\* entries that overlap; an entry inside the header; an entry past the end
\* of the file; a size that is no multiple of 4096; an entry at sector 0.
BrokenFiles ==
    { Truncated,
      HeaderOnly(B(3, 0), RegionSector_empty, RegionSector_new(0, 1)),
      HeaderOnly(B(1, 0), RegionSector_empty, RegionSector_empty),
      HeaderOnly(B(4, 0), RegionSector_new(2, 2), RegionSector_new(3, 1)),
      HeaderOnly(B(3, 0), RegionSector_new(1, 1), RegionSector_empty),
      HeaderOnly(B(3, 0), RegionSector_new(5, 1), RegionSector_empty),
      HeaderOnly(B(3, 100), RegionSector_new(2, 1), RegionSector_empty) }

InitOpen ==
    /\ file \in BulkFiles \cup BrokenFiles
    /\ header = EmptyHeader
    /\ sector_manager = SectorManager_new
    /\ result = Call("none", 0, 0, 0, 0, "none", "Ok", RegionSector_empty, 0)
    /\ ops = 0
    /\ ioFailures = 0
    /\ job = Idle

\* The calls on a RegionFile.
InstanceOps == {"open", "write_data", "write_timestamped", "delete_data", "read_data"}

\* RegionFile::open(path) is called.
Open ==
    /\ result.op \notin InstanceOps
    /\ Replace(RegionFile_open(file).self)
    /\ result' = Call("open", 0, 0, 0, 0, "none", RegionFile_open(file).status,
                      RegionSector_empty, 0)
    /\ UNCHANGED << file, ops, ioFailures, job >>

\* RegionFile::open returned an instance.
Opened == result.op \in InstanceOps /\ ~(result.op = "open" /\ result.status # "Ok")

RECURSIVE SequentialFrom(_, _, _)
\* The loop of chunks_are_sequential from slot i on; `last` is the entry
\* the next non-empty one is compared with.
SequentialFrom(table, last, i) ==
    IF i >= NumCoords THEN TRUE
    ELSE IF is_empty(table[i]) THEN SequentialFrom(table, last, i + 1)
    ELSE IF sector_offset(table[i]) <= sector_offset(last) THEN FALSE
    ELSE SequentialFrom(table, table[i], i + 1)

\* chunks_are_sequential(path): an I/O error if the file cannot be opened
\* or is shorter than the sector table; else the loop, which starts with
\* last = table[0].
chunks_are_sequential(path) ==
    IF path = NoFile \/ path.size.sec < 1 THEN [status |-> "IoError", payload |-> FALSE]
    ELSE [status |-> "Ok",
          payload |-> SequentialFrom(ReadHeader(path).sectors, ReadHeader(path).sectors[0], 1)]

\* chunks_are_sequential(path) is called before the path is opened.
ChunksAreSequential ==
    /\ result.op \notin InstanceOps
    /\ result' = Call("chunks_are_sequential", 0, 0, 0, 0, "none",
                      chunks_are_sequential(file).status, RegionSector_empty,
                      chunks_are_sequential(file).payload)
    /\ UNCHANGED << header, sector_manager, file, ops, ioFailures, job >>

\* The file chunk.<x>.<z>.nbt that extract_all_chunks creates for slot i;
\* `r` is what copy_data_from_sector returned for it. A payload of 0 is a
\* file without bytes.
ChunkFile(i, r) ==
    [x |-> RegionCoord_x(RegionCoord_from(i)), z |-> RegionCoord_z(RegionCoord_from(i)),
     payload |-> IF r.status = "Ok" THEN r.payload ELSE 0]

RECURSIVE ExtractFrom(_, _, _)
\* The loop of extract_all_chunks from slot i on; `out` are the files made
\* so far. The file of a slot is created before its frame is read.
ExtractFrom(path, i, out) ==
    IF i >= NumCoords THEN [status |-> "Ok", payload |-> out]
    ELSE IF is_empty(read_offset(path, i)) THEN ExtractFrom(path, i + 1, out)
    ELSE IF copy_data_from_sector(path, sector_offset(read_offset(path, i))).status # "Ok"
      THEN [status |-> copy_data_from_sector(path, sector_offset(read_offset(path, i))).status,
            payload |-> out \cup {ChunkFile(i, [status |-> "Err"])}]
    ELSE ExtractFrom(path, i + 1,
           out \cup {ChunkFile(i, copy_data_from_sector(path,
                                                        sector_offset(read_offset(path, i))))})

\* extract_all_chunks(path, dir) into an empty directory: the status and
\* the files in the directory afterwards.
extract_all_chunks(path) ==
    IF path = NoFile \/ path.size.sec < 1 THEN [status |-> "IoError", payload |-> {}]
    ELSE ExtractFrom(path, 0, {})

\* extract_all_chunks(path, dir) is called before the path is opened.
ExtractAllChunks ==
    /\ result.op \notin InstanceOps
    /\ result' = Call("extract_all_chunks", 0, 0, 0, 0, "none",
                      extract_all_chunks(file).status, RegionSector_empty,
                      extract_all_chunks(file).payload)
    /\ UNCHANGED << header, sector_manager, file, ops, ioFailures, job >>

NextOpen ==
    \/ Open
    \/ Opened /\ Next
    \/ ChunksAreSequential
    \/ ExtractAllChunks

\* A RegionFile is opened on the file at a path and then used.
SpecOpen == InitOpen /\ [][NextOpen]_vars

\* The file after create, write_data(1, level 9, payload 1),
\* write_data(0, level 9, payload 1), write_data(1, level 0, payload 1):
\* sector 2 is free, slot 0 has sector 3, slot 1 the sectors 4 and 5.
FragmentedFile ==
    write_data(write_data(write_data(create, NumCoords - 1, 9, 1, "none").self,
                          0, 9, 1, "none").self,
               NumCoords - 1, 0, 1, "none").self.file

InitCrash ==
    /\ \E f \in ExistingFiles \cup {FragmentedFile} :
          /\ header = open(f).header
          /\ sector_manager = open(f).sector_manager
          /\ file = f
    /\ result = Call("open", 0, 0, 0, 0, "none", "Ok", RegionSector_empty, 0)
    /\ ops = 0
    /\ ioFailures = 0
    /\ job = Idle

\* A RegionFile opened on a file with a free sector before its frames; I/O
\* steps may fail.
SpecCrash == InitCrash /\ [][NextIo]_vars

\* ------------------------------------------------------------------------
\* The writers on a freshly created file
\* ------------------------------------------------------------------------

InitFresh ==
    /\ header = create.header
    /\ sector_manager = create.sector_manager
    /\ file = create.file
    /\ result = Call("create", 0, 0, 0, 0, "none", "Ok", RegionSector_empty, 0)
    /\ ops = 0
    /\ ioFailures = 0
    /\ job = Idle

\* The calls on a RegionFile need an instance that was created or opened
\* after the last path-level call returned; the path-level calls open the
\* path themselves.
NextFresh ==
    \/ /\ NoCallRunning
       /\ result.op \in {"create", "open", "write_data", "write_timestamped", "delete_data"}
       /\ (WriteData \/ WriteTimestamped \/ DeleteData)
    \/ NoCallRunning /\ Reopen
    \/ RebuildRegionFile
    \/ DeleteChunks
    \/ WriteChunks
    \/ CopyTruncate
    \/ CopyFinish

\* write_data, delete_data, write_chunks, delete_chunks and
\* rebuild_region_file in any order on a file made by RegionFile::create.
SpecFresh == InitFresh /\ [][NextFresh]_vars

\* ------------------------------------------------------------------------
\* RegionCoord and the overlap of two RegionSectors, on their own
\* ------------------------------------------------------------------------

InitPure ==
    /\ header = EmptyHeader
    /\ sector_manager = SectorManager_new
    /\ file = NoFile
    /\ result = [op |-> "none"]
    /\ ops = 0
    /\ ioFailures = 0
    /\ job = Idle

\* RegionCoord::new(x, z) for two u16 values.
CoordNew ==
    /\ \E x, z \in {0, 1, 31, 32, 33, 63, 64, 1023, 1024, 65535} :
          result' = [op |-> "new", x |-> x, z |-> z, coord |-> RegionCoord_new(x, z)]
    /\ UNCHANGED << header, sector_manager, file, ops, ioFailures, job >>

\* RegionCoord::from((x, z)) for two integers of any integer type.
CoordFromTuple ==
    /\ \E x, z \in {-33, -32, -1, 0, 1, 31, 32, 1024, 65535, 65536, 65541} :
          result' = [op |-> "from_tuple", x |-> x, z |-> z,
                     coord |-> RegionCoord_from_tuple(x, z)]
    /\ UNCHANGED << header, sector_manager, file, ops, ioFailures, job >>

\* RegionCoord::from(value) for an integer of any integer type.
CoordFrom ==
    /\ \E value \in {-1, 0, 1, 31, 32, 1023, 1024, 1025, 65535, 65536, 65541} :
          result' = [op |-> "from", value |-> value, coord |-> RegionCoord_from(value)]
    /\ UNCHANGED << header, sector_manager, file, ops, ioFailures, job >>

\* a & b for two RegionSectors.
SectorBitAnd ==
    /\ \E ao, bo \in 0 .. 5, ac, bc \in 0 .. 3 :
          result' = [op |-> "bitand", a |-> RegionSector_new(ao, ac),
                     b |-> RegionSector_new(bo, bc),
                     overlap |-> bitand(RegionSector_new(ao, ac), RegionSector_new(bo, bc))]
    /\ UNCHANGED << header, sector_manager, file, ops, ioFailures, job >>

\* _required_sectors(size) and _pad_size(size) for a byte count that fits a
\* u32.
SectorsOfSize ==
    /\ \E sec \in {0, 1, 2, MaxSectorCount - 1, MaxSectorCount, U32Sectors - 1},
          off \in {0, 1, 2, 4090, 4091, 4092, 4093, 4094, 4095} :
          result' = [op |-> "required_sectors", size |-> B(sec, off),
                     required |-> required_sectors(B(sec, off)),
                     pad |-> pad_size(B(sec, off))]
    /\ UNCHANGED << header, sector_manager, file, ops, ioFailures, job >>

NextPure == CoordNew \/ CoordFromTuple \/ CoordFrom \/ SectorBitAnd \/ SectorsOfSize

\* The constructors of RegionCoord and the overlap operator applied to
\* values of their argument types.
SpecPure == InitPure /\ [][NextPure]_vars

\* ------------------------------------------------------------------------
\* The world layer: one manager (JavaChunkManager or VirtualJavaWorld) with
\* its map `regions`, and the threads that use the Arc<Mutex<RegionFile>>
\* values it hands out. The manager is kept in `job`:
\*   regions[rc]   0 when the map has no entry for rc, else the instance
\*   opened[rc]    RegionFile values constructed so far for rc
\*   lock[rc][i]   the worker holding the mutex of instance i of rc, or 0
\*   borrow        the worker inside a &mut self call of the manager, or 0
\*   worker[w]     where worker w is, and the instance its Arc points to
\* ------------------------------------------------------------------------

NumWorkers == 2
NumRegions == 2
MaxOpens == 2

Workers == 1 .. NumWorkers
RegionCoords == 0 .. NumRegions - 1

NoArc == [pc |-> "idle", coord |-> 0, inst |-> 0, call |-> "none"]

\* JavaChunkManager::create: both maps empty.
ChunkManager_create ==
    [pc |-> "world",
     regions |-> [rc \in RegionCoords |-> 0],
     opened |-> [rc \in RegionCoords |-> 0],
     lock |-> [rc \in RegionCoords |-> [i \in 1 .. MaxOpens + 1 |-> 0]],
     borrow |-> 0,
     worker |-> [w \in Workers |-> NoArc]]

\* make_arcmutex(RegionFile::open(..)?) followed by regions.insert.
OpenRegion(m, coord) ==
    [m EXCEPT !.opened[coord] = @ + 1, !.regions[coord] = m.opened[coord] + 1]

load_region_AlwaysOpens(m, coord, opens) ==
    IF ~opens THEN [status |-> "IoError", m |-> m, inst |-> 0]
    ELSE [status |-> "Ok", m |-> OpenRegion(m, coord), inst |-> m.opened[coord] + 1]

\* load_region: the instance in the map when there is one; otherwise a
\* RegionFile is opened (or created), and kept in the map unless that failed.
load_region(m, coord, opens) ==
    IF m.regions[coord] # 0
      THEN [status |-> "Ok", m |-> m, inst |-> m.regions[coord]]
    ELSE IF ~opens THEN [status |-> "IoError", m |-> m, inst |-> 0]
    ELSE [status |-> "Ok", m |-> OpenRegion(m, coord), inst |-> m.opened[coord] + 1]

InitWorld ==
    /\ header = EmptyHeader
    /\ sector_manager = SectorManager_new
    /\ file = NoFile
    /\ result = [op |-> "none"]
    /\ ops = 0
    /\ ioFailures = 0
    /\ job = ChunkManager_create

\* A call of the manager by worker w: it borrows the manager for as long as
\* `keeps` says (load_chunk and save_chunk until they return, load_region
\* only for its own duration) and leaves w with the Arc of the instance.
ManagerCall(w, coord, opens, call, keeps) ==
    /\ job.worker[w].pc = "idle"
    /\ job.borrow = 0
    /\ load_region(job, coord, opens).m.opened[coord] <= MaxOpens
    /\ job' = IF load_region(job, coord, opens).status # "Ok"
                THEN load_region(job, coord, opens).m
              ELSE [load_region(job, coord, opens).m EXCEPT
                      !.borrow = IF keeps THEN w ELSE 0,
                      !.worker[w] = [pc |-> "arc", coord |-> coord,
                                     inst |-> load_region(job, coord, opens).inst,
                                     call |-> call]]
    /\ result' = [op |-> call, worker |-> w, coord |-> coord,
                  status |-> load_region(job, coord, opens).status]
    /\ UNCHANGED << header, sector_manager, file, ops, ioFailures >>

LoadRegion == \E w \in Workers, coord \in RegionCoords, opens \in BOOLEAN :
    ManagerCall(w, coord, opens, "load_region", FALSE)

LoadChunk == \E w \in Workers, coord \in RegionCoords, opens \in BOOLEAN :
    ManagerCall(w, coord, opens, "load_chunk", TRUE)

SaveChunk == \E w \in Workers, coord \in RegionCoords, opens \in BOOLEAN :
    ManagerCall(w, coord, opens, "save_chunk", TRUE)

\* region.lock(): waits until the mutex of the instance is free.
Lock == \E w \in Workers :
    /\ job.worker[w].pc = "arc"
    /\ job.lock[job.worker[w].coord][job.worker[w].inst] = 0
    /\ job' = [job EXCEPT !.lock[job.worker[w].coord][job.worker[w].inst] = w,
                          !.worker[w].pc = "locked"]
    /\ result' = [op |-> "lock", worker |-> w, coord |-> job.worker[w].coord,
                  status |-> "Ok"]
    /\ UNCHANGED << header, sector_manager, file, ops, ioFailures >>

\* The seek of read_data / write_with_utcnow on the locked instance.
Seek == \E w \in Workers :
    /\ job.worker[w].pc = "locked"
    /\ job' = [job EXCEPT !.worker[w].pc = "seeked"]
    /\ result' = [op |-> "seek", worker |-> w, coord |-> job.worker[w].coord,
                  status |-> "Ok"]
    /\ UNCHANGED << header, sector_manager, file, ops, ioFailures >>

\* The read or write that follows the seek; the guard is dropped when the
\* call returns, and load_chunk / save_chunk drop their Arc and give the
\* manager back.
ReadWrite == \E w \in Workers :
    /\ job.worker[w].pc = "seeked"
    /\ job' = [job EXCEPT
                 !.lock[job.worker[w].coord][job.worker[w].inst] = 0,
                 !.borrow = IF job.borrow = w THEN 0 ELSE @,
                 !.worker[w] = IF job.worker[w].call = "load_region"
                                 THEN [@ EXCEPT !.pc = "arc"] ELSE NoArc]
    /\ result' = [op |-> "read_write", worker |-> w, coord |-> job.worker[w].coord,
                  status |-> "Ok"]
    /\ UNCHANGED << header, sector_manager, file, ops, ioFailures >>

\* A worker drops the Arc it got from load_region.
DropArc == \E w \in Workers :
    /\ job.worker[w].pc = "arc"
    /\ job.worker[w].call = "load_region"
    /\ job' = [job EXCEPT !.worker[w] = NoArc]
    /\ result' = [op |-> "drop", worker |-> w, coord |-> job.worker[w].coord,
                  status |-> "Ok"]
    /\ UNCHANGED << header, sector_manager, file, ops, ioFailures >>

NextWorld ==
    LoadRegion \/ LoadChunk \/ SaveChunk \/ Lock \/ Seek \/ ReadWrite \/ DropArc

\* One manager of the world layer used by NumWorkers threads.
SpecWorld == InitWorld /\ [][NextWorld]_vars

\* ------------------------------------------------------------------------
\* The bulk functions beside a RegionFile that is handed the same entries
\* ------------------------------------------------------------------------

RECURSIVE WriteEach(_, _, _, _, _)
\* A RegionFile performing write_timestamped for the entries of `it` from
\* entry `k` on, stopping at the first error.
WriteEach(w, compression, timestamp, it, k) ==
    IF k > Len(it) \/ w.ret.status # "Ok" THEN w
    ELSE WriteEach(write_timestamped(w.self, RegionCoord_new(it[k][1], it[k][2]),
                                     compression, it[k][3], timestamp, "none"),
                   compression, timestamp, it, k + 1)

RECURSIVE DeleteEach(_, _, _)
\* A RegionFile performing delete_data for the slots of `delete` from slot
\* `i` on, stopping at the first error.
DeleteEach(d, delete, i) ==
    IF i = NumCoords \/ d.ret.status # "Ok" THEN d
    ELSE IF i \in delete THEN DeleteEach(delete_data(d.self, i, "none"), delete, i + 1)
    ELSE DeleteEach(d, delete, i + 1)

\* RegionFile::open(path) before the first call of a sequence.
Opening(path) == [self |-> open(path), ret |-> Ret("Ok", RegionSector_empty)]

InitBoth ==
    /\ file \in {OutOfOrderFile} \cup ExistingFiles
    /\ header = EmptyHeader
    /\ sector_manager = SectorManager_new
    /\ result = [op |-> "none"]
    /\ ops = 0
    /\ ioFailures = 0
    /\ job = Idle

\* The bulk call returned `bulk` and the RegionFile ended as `inplace`; the
\* file at the path is the one the bulk call left.
Both(op, duplicate, bulk, inplace) ==
    /\ ops < MaxBulkOps
    /\ ops' = ops + 1
    /\ result' = [op |-> op, duplicate |-> duplicate, before |-> file,
                  status |-> bulk.status,
                  bulk |-> IF bulk.status = "Ok" THEN bulk.temp ELSE file,
                  inplace_status |-> inplace.ret.status,
                  inplace |-> inplace.self.file]
    /\ file' = IF bulk.status = "Ok" THEN bulk.temp ELSE file
    /\ UNCHANGED << header, sector_manager, ioFailures, job >>

\* write_chunks(path, compression, timestamp, it), and write_timestamped of
\* every entry of `it` on a RegionFile opened on the same file.
WriteChunksBoth ==
    \E compression \in Levels, timestamp \in Timestamps, it \in ChunkLists :
        Both("write_chunks", HasDuplicate(it),
             write_chunks(file, compression, timestamp, it, NoFail),
             WriteEach(Opening(file), compression, timestamp, it, 1))

\* delete_chunks(path, coordinates), and delete_data of every coordinate on
\* a RegionFile opened on the same file.
DeleteChunksBoth ==
    \E xzs \in SUBSET XZ :
        Both("delete_chunks", FALSE,
             delete_chunks(file, { RegionCoord_new(xz[1], xz[2]) : xz \in xzs }, NoFail),
             DeleteEach(Opening(file), { RegionCoord_new(xz[1], xz[2]) : xz \in xzs }, 0))

NextBoth == WriteChunksBoth \/ DeleteChunksBoth

\* Bulk calls on a valid region file, each one beside the same entries
\* handed to a RegionFile.
SpecBoth == InitBoth /\ [][NextBoth]_vars

\* ------------------------------------------------------------------------
\* RegionBuilder::build: the loop that hands every slot to a callback
\* ------------------------------------------------------------------------

\* What a callback does with its RegionBuilderChunk: nothing, delete(), or
\* write() / write_timestamped().
ChunkActs == {"none", "delete", "write"}

\* RegionBuilderWorker: the header, writer and reader (`b`) and copy_chunk.
RegionBuilderWorker(b, copy_chunk) == [b |-> b, copy_chunk |-> copy_chunk]

\* chunk_builder.build_chunk(coord, chunk)? for a callback that does `act`
\* and hands an error of its write on.
build_chunk(worker, index, act, compression, value, timestamp) ==
    IF act = "delete" THEN RegionBuilderWorker(ClearSlot(worker.b, index), FALSE)
    ELSE IF act = "write"
      THEN RegionBuilderWorker(
             WriteSlot(worker.b, index,
                       write_data_to_sector(worker.b.out, compression, value, "none"),
                       timestamp),
             IF write_data_to_sector(worker.b.out, compression, value, "none").status = "Ok"
               THEN FALSE ELSE worker.copy_chunk)
    ELSE worker

\* A loop body that leaves copy_chunk as the callback left it.
AfterBuildChunk_NoReset(worker, input, index) ==
    IF worker.b.status # "Ok" THEN worker
    ELSE IF worker.copy_chunk
      THEN IF is_empty(worker.b.header.sectors[index]) THEN worker
           ELSE RegionBuilderWorker(CopySlot(worker.b, input, index, "none"), TRUE)
    ELSE worker

\* The body of the loop of build behind the callback: the chunk is copied
\* if copy_chunk is set and the entry is not empty, else copy_chunk is set
\* again.
AfterBuildChunk(worker, input, index) ==
    IF worker.b.status # "Ok" THEN worker
    ELSE IF worker.copy_chunk
      THEN IF is_empty(worker.b.header.sectors[index]) THEN worker
           ELSE RegionBuilderWorker(CopySlot(worker.b, input, index, "none"), TRUE)
    ELSE RegionBuilderWorker(worker.b, TRUE)

InitBuilder ==
    /\ file \in BulkFiles
    /\ header = EmptyHeader
    /\ sector_manager = SectorManager_new
    /\ result = [op |-> "none"]
    /\ ops = 0
    /\ ioFailures = 0
    /\ job = Idle

\* build up to the loop: the file is made sure of, its header read, the
\* empty header written to the temporary file.
BuildBegin ==
    /\ NoCallRunning /\ ops < MaxBulkOps
    /\ ops' = ops + 1
    /\ file' = EnsureFile(file)
    /\ job' = [pc |-> "loop", op |-> "build", index |-> 0, calls |-> << >>,
               input |-> EnsureFile(file),
               worker |-> RegionBuilderWorker(
                            Building("Ok", ZeroHeaderFile, ReadHeader(EnsureFile(file))),
                            TRUE)]
    /\ result' = [op |-> "build", status |-> "Running"]
    /\ UNCHANGED << header, sector_manager, ioFailures >>

\* One pass of the loop, in which the callback returned `called`.
BuildPass(act, called) ==
    /\ job' = [job EXCEPT
                 !.index = @ + 1,
                 !.worker = AfterBuildChunk(called, job.input, job.index),
                 !.calls = Append(@, [index |-> job.index, act |-> act,
                                      copy_chunk |-> job.worker.copy_chunk,
                                      wrote |-> called.b # job.worker.b,
                                      copied |-> AfterBuildChunk(called, job.input, job.index).b
                                                   # called.b])]
    /\ UNCHANGED << header, sector_manager, file, result, ops, ioFailures >>

\* The callback is called for slot job.index and the loop body behind it runs.
BuildChunk ==
    /\ job.pc = "loop" /\ job.index < NumCoords /\ job.worker.b.status = "Ok"
    /\ \E act \in ChunkActs, compression \in Levels, value \in Payloads,
          timestamp \in Timestamps :
        BuildPass(act, build_chunk(job.worker, job.index, act, compression, value, timestamp))

\* The loop is over or was left with an error: the header is written and
\* the temporary file copied to the origin, or the error is returned.
BuildFinish ==
    /\ job.pc = "loop" /\ (job.index = NumCoords \/ job.worker.b.status # "Ok")
    /\ file' = IF job.worker.b.status = "Ok" THEN FinishHeader(job.worker.b).temp ELSE file
    /\ job' = [job EXCEPT !.pc = "done"]
    /\ result' = [op |-> "build", status |-> job.worker.b.status]
    /\ UNCHANGED << header, sector_manager, ops, ioFailures >>

NextBuilder == BuildBegin \/ BuildChunk \/ BuildFinish

\* RegionBuilder::build calls on the file at a path, one after another.
SpecBuilder == InitBuilder /\ [][NextBuilder]_vars

\* ------------------------------------------------------------------------
\* Properties
\* ------------------------------------------------------------------------

\* The calls that change the region file.
Mutators == {"write_data", "write_timestamped", "delete_data"}

\* The last call was a write_data that returned Ok.
WriteDataOk == result.op = "write_data" /\ result.status = "Ok"

\* What a read that returns the payload `value` looks like.
Returned(value) == [status |-> "Ok", payload |-> value]

\* C1: round trip. After a write_data(c, level, p) that returned Ok, a
\* read_data(c) on the same instance and on a fresh open of the same path
\* both return exactly p.
C1_RoundTrip ==
    WriteDataOk =>
        /\ read_data(Self, result.coord) = Returned(result.value)
        /\ read_data(open(file), result.coord) = Returned(result.value)

\* C2: after any sequence of successful write_data, write_timestamped and
\* delete_data calls on an instance from create or from open of a valid
\* file, no two non-empty entries of the sector table overlap.
C2_NoOverlap ==
    \A a, b \in Coords :
        (a # b /\ ~is_empty(header.sectors[a]) /\ ~is_empty(header.sectors[b]))
            => ~bitand(header.sectors[a], header.sectors[b])

\* A write went into a gap before a present slot and left a part of it free.
C2_Witness ==
    /\ WriteDataOk
    /\ \A c \in Coords : ~is_empty(header.sectors[c])
    /\ Len(sector_manager.unused) > 0
    /\ \E c \in Coords : sector_offset(header.sectors[c]) > sector_end_offset(result.sector)

\* C3: after every write_data, write_timestamped or delete_data that
\* returned Ok, the header stored in the first 8192 bytes of the file is
\* the in-memory header, so that an open of the same path reads the same
\* sector table and timestamp table.
C3_HeaderPersisted ==
    (result.op \in Mutators /\ result.status = "Ok") => ReadHeader(file) = header

\* C4: a write_data, write_timestamped or delete_data that returns an error,
\* an I/O failure at a seek or a write included, leaves the in-memory sector
\* table and timestamp table as they were before the call.
C4_FailureAtomic ==
    [][(ops' # ops /\ result'.op \in Mutators /\ result'.status # "Ok")
          => header' = header]_vars

\* The header sectors, the extents of the non-empty entries and the free
\* extents of the manager below its open-ended extent.
Pieces ==
    {[tag |-> << "header", 0 >>, start |-> 0, len |-> HeaderSectors]}
    \cup { [tag |-> << "entry", c >>, start |-> sector_offset(header.sectors[c]),
            len |-> sector_count(header.sectors[c])] :
             c \in { d \in Coords : ~is_empty(header.sectors[d]) } }
    \cup { [tag |-> << "free", i >>, start |-> sector_manager.unused[i].start,
            len |-> sector_manager.unused[i].len] : i \in DOMAIN sector_manager.unused }

SectorsOf(p) == p.start .. (p.start + p.len - 1)

\* C5: after any sequence of successful calls, the free extents of the
\* sector manager, the extents of the non-empty entries and the header
\* sectors 0 and 1 are pairwise disjoint and cover the sectors of the file
\* (the open-ended free extent covering those from its start on), and the
\* live manager is the manager that a fresh open builds from the header.
C5_Partition ==
    /\ sector_manager = SectorManager_from(header.sectors)
    /\ \A p, q \in Pieces : p # q => SectorsOf(p) \cap SectorsOf(q) = {}
    /\ UNION { SectorsOf(p) : p \in Pieces } = 0 .. (sector_manager.end - 1)
    /\ sector_manager.end <= file.size.sec

\* A delete left a free extent between the header and a present slot.
C5_Witness ==
    /\ result.op = "delete_data" /\ result.status = "Ok" /\ ~is_empty(result.sector)
    /\ Len(sector_manager.unused) > 0
    /\ \E c \in Coords : ~is_empty(header.sectors[c])

\* C6: the size of the file is a multiple of 4096 and at least 8192 after
\* create and after every successful write_data, write_timestamped and
\* delete_data.
C6_FileSize == file.size.off = 0 /\ file.size.sec >= HeaderSectors

\* A frame of 4097 bytes took two sectors of a new file, padded to the end
\* of the second.
C6_Witness ==
    /\ WriteDataOk
    /\ sector_count(result.sector) = 2
    /\ file.size = B(HeaderSectors + 2, 0)

\* C7: after any sequence of successful calls, every non-empty sector entry
\* starts at sector 2 or later, counts 1 to 255 sectors and ends inside the
\* file.
C7_EntryBounds ==
    \A c \in Coords :
        ~is_empty(header.sectors[c]) =>
            /\ sector_offset(header.sectors[c]) >= HeaderSectors
            /\ sector_count(header.sectors[c]) >= 1
            /\ sector_count(header.sectors[c]) <= MaxSectorCount
            /\ sector_end_offset(header.sectors[c]) <= file.size.sec

\* A write extended the file: its entry ends exactly at the end of the file.
C7_Witness ==
    /\ result.op = "write_timestamped" /\ result.status = "Ok"
    /\ header.sectors[result.coord] = result.sector
    /\ sector_end_offset(result.sector) = file.size.sec
    /\ sector_offset(result.sector) > HeaderSectors

\* The frame that starts at the sector of the entry `s`, if one does.
FramesAt(s) == { r \in file.data : r.start = sector_offset(s) /\ r.part = 0 }

\* C8: the frame that write_data wrote for a slot has the length field
\* L = 1 + the encoded payload bytes with 1 <= L <= count * 4096 - 4, and
\* the bytes written for it are exactly count * 4096, where count is the
\* sector count of the slot's entry.
C8_FrameLength ==
    WriteDataOk =>
        \E r \in FramesAt(result.sector) :
            /\ r.frame.length = BAdd(r.frame.enclen, 1)
            /\ BLe(B(0, 1), r.frame.length)
            /\ BLe(BAdd(r.frame.length, 4), B(sector_count(result.sector), 0))
            /\ r.frame.nbytes = B(sector_count(result.sector), 0)

\* ceil((payload_len + 5) / 4096): the sectors the frame of a payload needs.
FrameSectors(value, compression) == required_sectors(BAdd(EncodedLen(value, compression), 5))

\* C9: a write_data whose frame needs more than 255 sectors returns
\* ChunkTooLarge and leaves the file, the in-memory header and the sector
\* manager unchanged.
C9_ChunkTooLarge ==
    [][(ops' # ops /\ result'.op = "write_data"
          /\ FrameSectors(result'.value, result'.compression) > MaxSectorCount)
          => (result'.status = "ChunkTooLarge" /\ UNCHANGED << header, sector_manager, file >>)]_vars

\* The four bytes at the start of sector `o` of the file are zero.
LengthIsZero(f, o) ==
    LET covering == { r \in f.data : r.start <= o /\ o < r.start + r.n }
    IN  IF covering = {} THEN o < f.size.sec
        ELSE \E r \in covering :
                r.part + (o - r.start) = 0 /\ r.frame.codec # "torn" /\ r.frame.length = B(0, 0)

\* C10: read_data(c) returns ChunkNotFound exactly when the sector entry of
\* c is empty or the frame length at its sector is zero.
C10_ChunkNotFound ==
    \A c \in Coords :
        read_data(Self, c).status = "ChunkNotFound"
            <=> (is_empty(header.sectors[c])
                 \/ LengthIsZero(file, sector_offset(header.sectors[c])))

\* A read of a slot whose entry is not empty found a frame length of zero.
C10_Witness ==
    /\ result.op = "read_data" /\ result.status = "ChunkNotFound"
    /\ ~is_empty(result.sector)
    /\ header.sectors[result.coord] = result.sector

\* C12: delete_data is idempotent. A delete_data(c) that follows a
\* successful delete_data(c) returns Ok with the empty sector and changes
\* neither the in-memory header, the sector manager, nor the file.
C12_DeleteIdempotent ==
    [][(ops' # ops /\ result.op = "delete_data" /\ result.status = "Ok"
          /\ result'.op = "delete_data" /\ result'.coord = result.coord)
          => (/\ result'.status = "Ok"
              /\ result'.sector = RegionSector_empty
              /\ UNCHANGED << header, sector_manager, file >>)]_vars

\* The second of two delete_data calls on the last slot of the opened file
\* that held a frame there: the frame is still in the file.
C12_Witness ==
    /\ result.op = "delete_data" /\ result.status = "Ok"
    /\ result.coord = NumCoords - 1 /\ result.sector = RegionSector_empty
    /\ ops = 2
    /\ Run(4, 1, ForeignFrame, 0) \in file.data
    /\ \A c \in Coords : is_empty(header.sectors[c])

\* Every sector of the entry `s` is in the free set of the manager `sm`.
IsFree(sm, s) ==
    \A k \in sector_offset(s) .. (sector_end_offset(s) - 1) :
        \/ k >= sm.end
        \/ \E i \in DOMAIN sm.unused :
              sm.unused[i].start <= k /\ k < sm.unused[i].start + sm.unused[i].len

\* C13: delete_data(c) on a non-empty slot returns the old sector, returns
\* that extent to the free set, zeroes sectors[c] and timestamps[c] in
\* memory and in the two header tables on disk, and leaves the size of the
\* file and every byte from offset 8192 on as they were.
C13_DeleteEffect ==
    [][(ops' # ops /\ result'.op = "delete_data"
          /\ ~is_empty(header.sectors[result'.coord]))
          => (/\ result'.status = "Ok"
              /\ result'.sector = header.sectors[result'.coord]
              /\ IsFree(sector_manager', header.sectors[result'.coord])
              /\ header' = [header EXCEPT !.sectors[result'.coord] = 0,
                                          !.timestamps[result'.coord] = 0]
              /\ file'.sectors = [file.sectors EXCEPT ![result'.coord] = << 0, 0, 0, 0 >>]
              /\ file'.timestamps = [file.timestamps EXCEPT ![result'.coord] = << 0, 0, 0, 0 >>]
              /\ file'.size = file.size
              /\ file'.data = file.data)]_vars

\* A delete of the slot that had the timestamp 77: the entry and the
\* timestamp are zero on disk and the frame is still at sector 4.
C13_Witness ==
    /\ result.op = "delete_data" /\ result.status = "Ok"
    /\ result.sector = RegionSector_new(4, 1)
    /\ file.sectors[result.coord] = Zeroes4 /\ file.timestamps[result.coord] = Zeroes4
    /\ header.timestamps[result.coord] = 0
    /\ Run(4, 1, ForeignFrame, 0) \in file.data

\* C14: of the write calls, write_data leaves the whole timestamp table as
\* it was, in memory and on disk; write_timestamped changes timestamps[c]
\* only, and only if its data write succeeded.
C14_Timestamps ==
    [][ops' # ops =>
         /\ result'.op = "write_data" =>
               /\ header'.timestamps = header.timestamps
               /\ file'.timestamps = file.timestamps
         /\ result'.op = "write_timestamped" =>
               /\ \A d \in Coords \ {result'.coord} :
                     /\ header'.timestamps[d] = header.timestamps[d]
                     /\ file'.timestamps[d] = file.timestamps[d]
               /\ result'.status = "Ok" =>
                     /\ header'.timestamps[result'.coord] = result'.timestamp
                     /\ ReadU32(file'.timestamps[result'.coord]) = result'.timestamp
               /\ result'.status # "Ok" =>
                     /\ header'.timestamps[result'.coord] = header.timestamps[result'.coord]
                     /\ file'.timestamps[result'.coord] = file.timestamps[result'.coord]]_vars

\* A write_data over a slot that has a timestamp: the timestamp is still there.
C14_Witness ==
    /\ WriteDataOk
    /\ header.timestamps[result.coord] = 77
    /\ ReadU32(file.timestamps[result.coord]) = 77

\* The last call was a decode of slot result.coord by a RegionReader.
ReaderOps == {"copy_data_at_coord", "read_data_at_coord"}

\* C11: every decode path takes the scheme from the byte at frame offset +4
\* and hands the decoder the length - 1 bytes from frame offset +5 on: what
\* a RegionReader call returns for a slot with a non-empty entry is what
\* decoding the frame at its sector in that way gives -- the payload,
\* InvalidCompressionScheme with that byte, or nothing for a zero length.
C11_SchemeByte ==
    (/\ result.op \in ReaderOps
     /\ HasHeader(file)
     /\ ~is_empty(read_offset(file, result.coord)))
    => [status |-> result.status, payload |-> result.payload]
         = NoneIfAbsent(ReadFrameAt(file, sector_offset(read_offset(file, result.coord))))

\* The frame the sector entry of slot `c` of the file `f` points at: its
\* length, its scheme byte and its payload bytes.
SlotFrames(f, c) ==
    { [length |-> r.frame.length, scheme |-> r.frame.scheme, codec |-> r.frame.codec,
       payload |-> r.frame.payload, enclen |-> r.frame.enclen] :
        r \in { q \in f.data : q.start = sector_offset(read_offset(f, c)) /\ q.part = 0 } }

\* C15: rebuild_region_file preserves content: a slot present in the input
\* has the same frame (length, scheme byte, payload bytes) in the output, a
\* slot empty in the input is empty in the output, and the timestamp table
\* is identical.
C15_RebuildPreserves ==
    RebuildDone =>
        /\ \A c \in Coords :
              IF is_empty(read_offset(job.before, c))
                THEN is_empty(read_offset(file, c))
                ELSE /\ ~is_empty(read_offset(file, c))
                     /\ SlotFrames(job.before, c) # {}
                     /\ SlotFrames(file, c) = SlotFrames(job.before, c)
        /\ file.timestamps = job.before.timestamps

\* A rebuild returned Ok for a file with a present slot that carries a
\* timestamp and whose frame it moved to another sector.
C15_Witness ==
    /\ RebuildDone
    /\ \E c \in Coords :
          /\ ~is_empty(read_offset(job.before, c))
          /\ ReadU32(job.before.timestamps[c]) # 0
          /\ read_offset(file, c) # read_offset(job.before, c)

RECURSIVE CompactFrom(_, _, _)
\* The non-empty entries of the file `f` from slot `i` on lie one after
\* another from sector `next` on, each with the count its frame needs, and
\* the file ends where the last of them ends.
CompactFrom(f, i, next) ==
    IF i = NumCoords THEN f.size = B(next, 0)
    ELSE IF is_empty(read_offset(f, i)) THEN CompactFrom(f, i + 1, next)
    ELSE /\ sector_offset(read_offset(f, i)) = next
         /\ \E fr \in SlotFrames(f, i) :
               sector_count(read_offset(f, i)) = required_sectors(BAdd(fr.length, 4))
         /\ CompactFrom(f, i + 1, next + sector_count(read_offset(f, i)))

\* C16: after rebuild_region_file the output is compact: in slot order the
\* first non-empty entry has offset 2, each next one starts where the
\* previous one ends, each count is ceil((length + 4) / 4096), and the file
\* size is 4096 * (2 + the sum of the counts).
C16_RebuildCompact == RebuildDone => CompactFrom(file, 0, HeaderSectors)

\* The calls that rebuild the file at the path.
BulkOps == {"rebuild_region_file", "delete_chunks", "write_chunks"}

\* Slot `c` of the file `f` has a non-empty entry whose frame length is zero.
ZeroLengthSlot(f, c) ==
    ~is_empty(read_offset(f, c)) /\ LengthIsZero(f, sector_offset(read_offset(f, c)))

\* C17: a rebuild (rebuild_region_file, delete_chunks, write_chunks) whose
\* input has a non-empty slot with a frame length of zero goes on to the
\* other slots and builds its output, in which no slot has a non-empty
\* entry with a frame length of zero.
C17_ZeroLengthReset ==
    (/\ job.pc # "idle"
     /\ job.op \in BulkOps
     /\ result.op \in BulkOps
     /\ result.status # "DuplicateChunk"
     /\ HasHeader(job.before)
     /\ \E c \in Coords : ZeroLengthSlot(job.before, c))
    => /\ job.temp # NoFile
       /\ \A c \in Coords : ~ZeroLengthSlot(job.temp, c)

\* C18: rebuild is idempotent: a rebuild_region_file(path, path) of a file
\* that a rebuild_region_file produced returns Ok and leaves the file
\* identical to what it was before the call.
C18_RebuildIdempotent ==
    (job.pc = "done" /\ job.op = "rebuild_region_file" /\ job.rebuilt)
    => (job.temp # NoFile /\ file = job.before)

\* A second rebuild returned for a file that holds frames.
C18_Witness ==
    /\ job.pc = "done" /\ job.op = "rebuild_region_file" /\ job.rebuilt
    /\ \E c \in Coords : ~is_empty(read_offset(file, c))
    /\ file.data # {}

\* C19: a rebuild replaces its target atomically: at every point of a
\* rebuild_region_file, delete_chunks or write_chunks call, and after it,
\* the file at the path is the complete original (for write_chunks on a
\* path without a file, the empty region file it starts from counts as
\* original) or the complete rebuilt file.
C19_AtomicReplace ==
    (job.pc # "idle" /\ job.op \in BulkOps)
    => \/ file = job.before
       \/ file = EnsureFile(job.before)
       \/ (job.temp # NoFile /\ file = job.temp)

\* C20: a write_chunks call in which two entries normalize to the same
\* RegionCoord returns DuplicateChunk and leaves what is at the path as it
\* was before the call.
C20_DuplicateChunk ==
    [][(ops' # ops /\ result'.op = "write_chunks" /\ job'.duplicate)
          => (result'.status = "DuplicateChunk" /\ file' = file)]_vars

\* C21: errors are never swallowed: a call in which an I/O step fails
\* returns an error.
C21_ErrorsPropagate ==
    (result.op \in BulkOps /\ result.io # "none") => result.status \notin {"Running", "Ok"}

\* Invariants 1 to 3 of the header of the file `f`: the size is a multiple
\* of 4096 and at least 8192; every non-empty entry has offset >= 2, a count
\* of 1 to 255 and ends inside the file; no two non-empty entries overlap.
ValidHeader(f) ==
    /\ f # NoFile
    /\ f.size.off = 0 /\ f.size.sec >= HeaderSectors
    /\ \A c \in Coords :
          ~is_empty(read_offset(f, c)) =>
              /\ sector_offset(read_offset(f, c)) >= HeaderSectors
              /\ sector_count(read_offset(f, c)) >= 1
              /\ sector_end_offset(read_offset(f, c)) <= f.size.sec
    /\ \A c, d \in Coords :
          (c # d /\ ~is_empty(read_offset(f, c)) /\ ~is_empty(read_offset(f, d)))
              => ~bitand(read_offset(f, c), read_offset(f, d))

\* C22: RegionFile::open returns an instance only for a file whose header
\* satisfies the invariants; for a file of less than 8192 bytes or with a
\* header that violates one it fails with InvalidRegionFile.
C22_OpenValidates ==
    (result.op = "open" /\ file # NoFile)
    => IF ValidHeader(file) THEN result.status = "Ok"
                            ELSE result.status = "InvalidRegionFile"

\* C23: when write_data of a frame of at most 255 sectors fails between the
\* write of the frame and the write of the sector entry, the entry on disk
\* is what it was, and a RegionFile opened afresh reads at every slot what
\* it read before the call, or, at the slot of the call, the payload of the
\* call.
C23_InterruptedWrite ==
    [][(/\ result'.op \in {"write_data", "write_timestamped"}
        /\ result'.io = "entry"
        /\ required_sectors(BAdd(EncodedLen(result'.value, result'.compression), 5))
             <= MaxSectorCount)
       => /\ file'.sectors[result'.coord] = file.sectors[result'.coord]
          /\ \A c \in Coords :
                \/ read_data(open(file'), c) = read_data(open(file), c)
                \/ /\ c = result'.coord
                   /\ read_data(open(file'), c)
                        = [status |-> "Ok", payload |-> result'.value]]_vars

\* The sector entry of slot c of the file f is empty or points at the start
\* of a frame whose length is not zero.
NotWasted(f, c) ==
    ~is_empty(read_offset(f, c)) =>
        \E r \in f.data : /\ r.start = sector_offset(read_offset(f, c))
                          /\ r.part = 0
                          /\ r.frame.length # B(0, 0)

\* C24: after any sequence of write_data, delete_data, write_chunks,
\* delete_chunks and rebuild_region_file calls on a freshly created file,
\* every non-empty sector entry points at a frame whose length is not zero.
C24_NoWastedSectors ==
    NoCallRunning => \A c \in Coords : NotWasted(file, c)

\* No sector of o .. o+n-1 belongs to a non-empty entry of the table.
FreeIn(sectors, o, n) ==
    \A c \in DOMAIN sectors :
        \/ is_empty(sectors[c])
        \/ sector_end_offset(sectors[c]) <= o
        \/ o + n <= sector_offset(sectors[c])

\* A call of write_data or write_timestamped returns Ok in this step.
WriteReturnsOk ==
    /\ result'.op \in {"write_data", "write_timestamped"}
    /\ result'.status = "Ok"
    /\ ops' = ops + 1

\* The number of sectors the frame of the call that returns in this step
\* needs.
Needed == required_sectors(BAdd(EncodedLen(result'.value, result'.compression), 5))

\* C25: a write_data to an empty slot whose frame needs n sectors is placed
\* at the lowest address behind the header at which n sectors are free.
C25_FirstFit ==
    [][(WriteReturnsOk /\ is_empty(header.sectors[result'.coord]))
       => /\ sector_offset(result'.sector) >= HeaderSectors
          /\ header'.sectors[result'.coord] = result'.sector
          /\ FreeIn(header.sectors, sector_offset(result'.sector), Needed)
          /\ \A o \in HeaderSectors .. sector_offset(result'.sector) - 1 :
                ~FreeIn(header.sectors, o, Needed)]_vars

RestFree(sm, old, new) ==
    \A k \in sector_offset(old) .. sector_end_offset(old) - 1 :
        \/ sector_offset(new) <= k /\ k < sector_end_offset(new)
        \/ IsFree(sm, RegionSector_new(k, 1))

\* C27: a write_data to a present slot that needs n > old.count sectors
\* returns a sector of n sectors: the old one extended in place if the n -
\* old.count sectors that follow it are free, else one that lies in sectors
\* no other slot has; the old sectors outside the new sector are free
\* afterwards, and read_data returns the new payload.
C27_OverwriteGrows ==
    [][(/\ WriteReturnsOk
        /\ ~is_empty(header.sectors[result'.coord])
        /\ Needed > sector_count(header.sectors[result'.coord]))
       => /\ sector_count(result'.sector) = Needed
          /\ header'.sectors[result'.coord] = result'.sector
          /\ IF IsFree(sector_manager,
                       RegionSector_new(sector_end_offset(header.sectors[result'.coord]),
                                        Needed - sector_count(header.sectors[result'.coord])))
               THEN sector_offset(result'.sector)
                      = sector_offset(header.sectors[result'.coord])
               ELSE FreeIn([header.sectors EXCEPT ![result'.coord] = RegionSector_empty],
                           sector_offset(result'.sector), Needed)
          /\ RestFree(sector_manager', header.sectors[result'.coord], result'.sector)
          /\ read_data(Self', result'.coord)
               = [status |-> "Ok", payload |-> result'.value]]_vars

\* C28: RegionCoord::new(x, z) has the index (z mod 32) * 32 + (x mod 32),
\* x() and z() give x mod 32 and z mod 32 back, and adding 32 to x or to z
\* gives the same RegionCoord.
C28_CoordNormalizes ==
    result.op = "new" =>
        /\ RegionCoord_index(result.coord) = (result.z % 32) * 32 + (result.x % 32)
        /\ RegionCoord_x(result.coord) = result.x % 32
        /\ RegionCoord_z(result.coord) = result.z % 32
        /\ RegionCoord_new(result.x + 32, result.z) = result.coord
        /\ RegionCoord_new(result.x, result.z + 32) = result.coord

\* RegionCoord::new(32, 32) returned the RegionCoord of (0, 0).
C28_Witness ==
    /\ result.op = "new" /\ result.x = 32 /\ result.z = 32
    /\ result.coord = RegionCoord_new(0, 0)
    /\ RegionCoord_index(result.coord) = 0

\* C29: every RegionCoord, made by new, from a tuple or from an integer,
\* has an index below the length of the header tables.
C29_IndexInBounds ==
    result.op \in {"new", "from_tuple", "from"} =>
        RegionCoord_index(result.coord) \in 0 .. TableLen - 1

\* C30: a & b is true iff a.end > b.start and b.end > a.start, and false
\* whenever a or b has the count 0.
C30_Overlap ==
    result.op = "bitand" =>
        /\ result.overlap <=> /\ sector_end_offset(result.a) > sector_offset(result.b)
                              /\ sector_end_offset(result.b) > sector_offset(result.a)
        /\ (sector_count(result.a) = 0 \/ sector_count(result.b) = 0) => ~result.overlap

\* C31: pad_size(size) is in 0 .. 4095 and fills size up to a multiple of
\* 4096, required_sectors(size) is the least number of sectors that hold
\* size bytes, and required_sectors(size) * 4096 = size + pad_size(size).
C31_SectorArithmetic ==
    result.op = "required_sectors" =>
        /\ result.pad \in 0 .. SectorSize - 1
        /\ BAdd(result.size, result.pad).off = 0
        /\ BLe(result.size, B(result.required, 0))
        /\ result.required > 0 => ~BLe(result.size, B(result.required - 1, 0))
        /\ B(result.required, 0) = BAdd(result.size, result.pad)

\* A frame of 4092 + 5 bytes was found to need 2 sectors and 4095 bytes of
\* padding.
C31_Witness ==
    /\ result.op = "required_sectors"
    /\ result.size = BAdd(B(0, 4092), 5)
    /\ result.required = 2
    /\ result.pad = SectorSize - 1

\* C32: chunks_are_sequential returns true iff the non-empty sector
\* entries, in slot order, have strictly increasing sector offsets.
C32_Sequential ==
    (result.op = "chunks_are_sequential" /\ result.status = "Ok")
    => (result.payload
        <=> \A c, d \in Coords :
              (c < d /\ ~is_empty(read_offset(file, c)) /\ ~is_empty(read_offset(file, d)))
              => sector_offset(read_offset(file, c)) < sector_offset(read_offset(file, d)))

\* C33: on a valid region file extract_all_chunks succeeds and leaves a
\* file chunk.<x>.<z>.nbt with the decoded payload exactly for the slots
\* that are non-empty with a frame length that is not zero.
C33_ExtractAll ==
    (result.op = "extract_all_chunks" /\ ValidHeader(file))
    => /\ result.status = "Ok"
       /\ result.payload
            = { [x |-> c % 32, z |-> c \div 32, payload |-> read_data(open(file), c).payload] :
                  c \in { d \in Coords : /\ ~is_empty(read_offset(file, d))
                                         /\ ~ZeroLengthSlot(file, d) } }

\* In a seek or read/write step of a RegionFile of region rc.
InCall(w, rc) ==
    job.worker[w].coord = rc /\ job.worker[w].pc \in {"locked", "seeked"}

\* C34: the world layer opens at most one RegionFile per region coordinate,
\* every worker that holds an Arc holds the one in the map, and no two
\* workers are between lock and unlock on the same region at once.
C34_SharedInstance ==
    \A rc \in RegionCoords :
        /\ job.opened[rc] <= 1
        /\ \A w \in Workers :
              job.worker[w].pc # "idle" /\ job.worker[w].coord = rc
                  => job.worker[w].inst = job.regions[rc]
        /\ \A v \in Workers, w \in Workers :
              InCall(v, rc) /\ InCall(w, rc) => v = w

C34_Witness ==
    \E v \in Workers, w \in Workers :
        /\ v # w
        /\ job.worker[v].coord = job.worker[w].coord
        /\ job.worker[v].pc = "seeked"
        /\ job.worker[w].pc = "arc"
        /\ job.worker[w].call = "save_chunk"
\* The instance after the step.
SelfAfter == [header |-> header', sector_manager |-> sector_manager', file |-> file']

\* C35: slot isolation. A write_data, write_timestamped or delete_data of
\* slot c that returned Ok leaves, for every other slot d, the sector entry,
\* the timestamp and what read_data(d) returns as they were.
C35_SlotIsolation ==
    [][(ops' # ops /\ result'.op \in Mutators /\ result'.status = "Ok")
          => \A d \in Coords \ {result'.coord} :
                /\ header'.sectors[d] = header.sectors[d]
                /\ header'.timestamps[d] = header.timestamps[d]
                /\ read_data(SelfAfter, d) = read_data(Self, d)]_vars
\* C36: after a write_data that failed at a step of file I/O, no sector of
\* an extent that the in-memory sector table refers to is in the free set
\* of the sector manager.
C36_FreeSetAfterFailure ==
    (result.op = "write_data" /\ result.io # "none")
        => \A c \in Coords :
              \A k \in sector_offset(header.sectors[c]) .. (sector_end_offset(header.sectors[c]) - 1) :
                  ~IsFree(sector_manager, RegionSector_new(k, 1))
\* C37: the sector that write_data_to_sector returns counts
\* ceil((payload_len + 5) / 4096) sectors, which is the number of sectors
\* its frame occupies in the output, and a frame of more than 255 sectors
\* is refused with ChunkTooLarge, so none is in the output. Stated of a
\* write_chunks that returned Ok on a path without a file, where every
\* entry of the new header comes from write_data_to_sector.
C37_WriterSectorCount ==
    (job.pc = "done" /\ job.before = NoFile
       /\ result.op = "write_chunks" /\ result.status = "Ok")
        => /\ \A c \in Coords :
                 ~is_empty(read_offset(file, c)) =>
                     \E r \in file.data :
                         /\ r.start = sector_offset(read_offset(file, c)) /\ r.part = 0
                         /\ r.n = sector_count(read_offset(file, c))
                         /\ sector_count(read_offset(file, c))
                               = required_sectors(BAdd(r.frame.enclen, 5))
           /\ \A r \in file.data : r.n <= MaxSectorCount
\* C38: from the same valid file, write_chunks and a RegionFile performing
\* write_timestamped for each entry (no two entries for one slot), and
\* delete_chunks and a RegionFile performing delete_data for each
\* coordinate, leave files in which every slot reads the same (the same
\* payload, or ChunkNotFound in both) and the timestamp tables are equal.
C38_BulkAgreesWithInPlace ==
    (result.op \in {"write_chunks", "delete_chunks"} /\ ValidHeader(result.before)
       /\ ~result.duplicate)
        => /\ \A c \in Coords :
                 read_data(open(result.bulk), c) = read_data(open(result.inplace), c)
           /\ result.bulk.timestamps = result.inplace.timestamps
\* C39: RegionBuilder::build calls the callback once for every index, in
\* increasing order, with copy_chunk set at the start of every call; the
\* chunk of an index is copied iff its entry is not empty and the callback
\* neither wrote nor deleted; a build that returns Ok has called it for
\* every index.
C39_BuilderLoop ==
    job.pc \in {"loop", "done"} /\ job.op = "build" =>
        /\ Len(job.calls) = job.index
        /\ \A k \in 1 .. Len(job.calls) :
              /\ job.calls[k].index = k - 1
              /\ job.calls[k].copy_chunk
              /\ job.calls[k].copied
                    <=> (/\ job.calls[k].act = "none"
                         /\ ~is_empty(ReadHeader(job.input).sectors[k - 1]))
        /\ (job.pc = "done" /\ result.status = "Ok") => job.index = NumCoords

\* A build that returned Ok in which the callback wrote slot 0 and left the
\* last slot alone, whose chunk was copied.
C39_Witness ==
    /\ job.pc = "done" /\ job.op = "build" /\ result.status = "Ok"
    /\ job.calls[1].act = "write" /\ job.calls[1].wrote
    /\ job.calls[NumCoords].act = "none" /\ job.calls[NumCoords].copied
\* C40: a rebuild_region_file, delete_chunks or write_chunks that returns an
\* error while a slot is processed (an error of a copy or of a write, not
\* the DuplicateChunk of the entries) leaves what is at the path as it was
\* before the call.
C40_ErrorLeavesTarget ==
    [][(ops' # ops /\ result'.op \in BulkOps /\ result'.coord < NumCoords
          /\ result'.status \notin {"Running", "Ok", "DuplicateChunk"})
          => file' = file]_vars
====
